---- MODULE Spec2Model ----
(***************************************************************************)
(* Model of the quill-core-rs editing core: the document node tree, the    *)
(* cursor with its cached retain index, and the three operational          *)
(* transform entry points insert / delete / retain, with the basic         *)
(* registry (paragraph block format + text leaf format).                   *)
(*                                                                         *)
(* Nodes live in an arena h.n (a sequence of node records); a node is      *)
(* named by its index, node 1 is the document root and 0 stands for        *)
(* Option::None.  Child lists and parent references are stored as in       *)
(* DocumentNode (children: Vec, parent: Weak).                             *)
(***************************************************************************)
EXTENDS Integers, Sequences, FiniteSets, TLC

\* ---------------------------------------------------------------------
\* Bounds of the model
\* ---------------------------------------------------------------------
MaxDocLen == 4
MaxCount == 2
\* the longest list of registered labels
MaxRegistered == 3

\* ---------------------------------------------------------------------
\* Vocabulary
\* ---------------------------------------------------------------------
ROOT == 1
NoNode == 0

\* attributes are sets of keys: "bold" is a key of the text format, "align"
\* a key that no leaf format of the registry takes
NoAttr == {}

\* the character of a block operation
NL == "\n"

\* ---------------------------------------------------------------------
\* DocumentNode
\* ---------------------------------------------------------------------
mk_root == [k |-> "root", txt |-> <<>>, at |-> NoAttr, par |-> NoNode,
            ch |-> <<>>, br |-> FALSE]

is_text(h, x) == h.n[x].k = "text"

is_doc_root(h, x) == h.n[x].k = "root"

\* variant: only text has a length, the terminator of a block counts nothing
op_len_of_text_only(h, x) ==
  IF h.n[x].k = "text" THEN Len(h.n[x].txt) ELSE 0

op_len(h, x) ==
  IF h.n[x].k = "text" THEN Len(h.n[x].txt)
  ELSE IF h.n[x].k = "block" THEN 1 ELSE 0

child_count(h, x) == Len(h.n[x].ch)

get_parent(h, x) == h.n[x].par

IndexOf(s, x) ==
  IF \E i \in 1..Len(s) : s[i] = x
  THEN CHOOSE i \in 1..Len(s) : s[i] = x /\ \A j \in 1..(i-1) : s[j] # x
  ELSE 0

\* 1-based position of c in the child list of p, 0 when it is not a child
get_child_index(h, p, c) == IndexOf(h.n[p].ch, c)

\* i is a 1-based position
get_child(h, p, i) ==
  IF i >= 1 /\ i <= Len(h.n[p].ch) THEN h.n[p].ch[i] ELSE NoNode

is_empty_block(h, x) == ~is_text(h, x) /\ child_count(h, x) = 0

\* ---------------------------------------------------------------------
\* Outcome of a call: "ok", "err" (a typed Err is returned), "panic"
\* ---------------------------------------------------------------------
Fail(h, e) == IF h.st = "ok" THEN [h EXCEPT !.st = "err", !.e = e] ELSE h

Panic(h, e) == IF h.st = "ok" THEN [h EXCEPT !.st = "panic", !.e = e] ELSE h

\* a `let x = v;` of the source followed by the statements after it is
\* written With([x \in {v} |-> rest]): the value of rest with x bound to v
With(f) == f[CHOOSE x \in DOMAIN f : TRUE]

\* ---------------------------------------------------------------------
\* dom_doc_tree_morph
\* ---------------------------------------------------------------------
RemoveAt(s, i) == SubSeq(s, 1, i - 1) \o SubSeq(s, i + 1, Len(s))

InsertAt(s, i, x) == SubSeq(s, 1, i - 1) \o <<x>> \o SubSeq(s, i, Len(s))

\* the child leaves the child list; its own parent reference is not reset
unlink(h, p, c) ==
  LET i == get_child_index(h, p, c) IN
  IF i = 0 THEN h
  ELSE [h EXCEPT !.n[p].ch = RemoveAt(@, i)]

\* the child enters the child list, its parent reference is left as it was
append_keeps_parent(h, p, c) ==
  IF h.n[p].k = "text" THEN Panic(h, "append to text node")
  ELSE [h EXCEPT !.n[p].ch = Append(@, c)]

append(h, p, c) ==
  IF h.n[p].k = "text" THEN Panic(h, "append to text node")
  ELSE [h EXCEPT !.n[c].par = p, !.n[p].ch = Append(@, c)]

\* i0 is the 0-based index of the source
insert_at_index(h, p, i0, c) ==
  IF h.n[p].k = "text" THEN Panic(h, "insert into text node")
  ELSE IF i0 + 1 > Len(h.n[p].ch) THEN append(h, p, c)
  ELSE [h EXCEPT !.n[c].par = p, !.n[p].ch = InsertAt(@, i0 + 1, c)]

insert_before(h, p, nxt, c) ==
  LET i == get_child_index(h, p, nxt) IN
  IF i = 0 THEN append(h, p, c) ELSE insert_at_index(h, p, i - 1, c)

insert_after(h, p, left, c) ==
  LET i == get_child_index(h, p, left) IN
  IF i = 0 THEN Panic(h, "insert_after: unwrap on None")
  ELSE insert_at_index(h, p, i, c)

\* ---------------------------------------------------------------------
\* tree_traverse
\* ---------------------------------------------------------------------
RECURSIVE first_iter_intern(_, _)
first_iter_intern(h, x) ==
  IF Len(h.n[x].ch) > 0 THEN first_iter_intern(h, h.n[x].ch[1]) ELSE x

first_node(h) == first_iter_intern(h, h.n[ROOT].ch[1])

last_block_node(h) == get_child(h, ROOT, child_count(h, ROOT))

\* variant: the next sibling itself, not the first node below it
next_node_sibling_itself(h, x) ==
  LET p == get_parent(h, x) IN
  IF p = NoNode THEN NoNode
  ELSE LET i == get_child_index(h, p, x) IN
       IF i = 0 THEN NoNode
       ELSE IF i < Len(h.n[p].ch) THEN h.n[p].ch[i + 1]
       ELSE IF ~is_doc_root(h, p) THEN p
       ELSE NoNode

next_node(h, x) ==
  LET p == get_parent(h, x) IN
  IF p = NoNode THEN NoNode
  ELSE LET i == get_child_index(h, p, x) IN
       IF i = 0 THEN NoNode
       ELSE IF i < Len(h.n[p].ch) THEN first_iter_intern(h, h.n[p].ch[i + 1])
       ELSE IF ~is_doc_root(h, p) THEN p
       ELSE NoNode

RECURSIVE next_node_non_zero_length(_, _)
next_node_non_zero_length(h, x) ==
  LET nxt == next_node(h, x) IN
  IF nxt = NoNode THEN NoNode
  ELSE IF op_len(h, nxt) > 0 THEN nxt
  ELSE next_node_non_zero_length(h, nxt)

RECURSIVE prev_up(_, _)
prev_up(h, child) ==
  LET p == get_parent(h, child) IN
  IF p = NoNode THEN NoNode
  ELSE LET i == get_child_index(h, p, child) IN
       IF i > 1 THEN h.n[p].ch[i - 1]
       ELSE IF i = 0 THEN NoNode
       ELSE IF is_doc_root(h, p) THEN NoNode
       ELSE prev_up(h, p)

prev_node(h, x) ==
  IF is_doc_root(h, x) THEN NoNode
  ELSE IF child_count(h, x) > 0 THEN h.n[x].ch[child_count(h, x)]
  ELSE prev_up(h, x)

RECURSIVE prev_node_non_zero_length(_, _)
prev_node_non_zero_length(h, x) ==
  LET prv == prev_node(h, x) IN
  IF prv = NoNode THEN NoNode
  ELSE IF op_len(h, prv) > 0 THEN prv
  ELSE prev_node_non_zero_length(h, prv)

RECURSIVE next_block(_, _)
next_block(h, x) ==
  LET p == next_node(h, x) IN
  IF p = NoNode THEN NoNode
  ELSE IF ~is_text(h, p) /\ op_len(h, p) > 0 THEN p
  ELSE next_block(h, p)

next_sibling(h, x) ==
  LET p == get_parent(h, x) IN
  get_child(h, p, get_child_index(h, p, x) + 1)

prev_sibling(h, x) ==
  LET p == get_parent(h, x) IN
  get_child(h, p, get_child_index(h, p, x) - 1)

\* ---------------------------------------------------------------------
\* Cursor: start location and cached retain index
\* ---------------------------------------------------------------------
RECURSIVE retain_walk(_, _)
retain_walk(h, x) ==
  LET p == prev_node(h, x) IN
  IF p = NoNode THEN 0 ELSE op_len(h, p) + retain_walk(h, p)

\* the value computed by Cursor::calculate_retain_index for a location
retain_of(h, c) ==
  (IF c.loc = "At" THEN c.ix
   ELSE IF c.loc = "After" THEN op_len(h, c.nd)
   ELSE 0) + retain_walk(h, c.nd)

calculate_retain_index(h) ==
  IF h.cur.loc = "None" THEN Panic(h, "calculate_retain_index: NONE")
  ELSE IF is_doc_root(h, h.cur.nd) THEN Panic(h, "calculate_retain_index: root")
  ELSE [h EXCEPT !.ret = retain_of(h, h.cur)]

set_after_no_retain_update(h, x) ==
  IF h.st # "ok" THEN h
  ELSE IF ~is_text(h, x) THEN Panic(h, "set_after: not a text node")
  ELSE [h EXCEPT !.cur = [loc |-> "After", nd |-> x, ix |-> 0]]

set_after(h, x) ==
  LET g == set_after_no_retain_update(h, x) IN
  IF g.st # "ok" THEN g ELSE calculate_retain_index(g)

set_before_no_retain_update(h, x) ==
  IF h.st # "ok" THEN h
  ELSE IF ~is_text(h, x) THEN Panic(h, "set_before: not a text node")
  ELSE [h EXCEPT !.cur = [loc |-> "Before", nd |-> x, ix |-> 0]]

set_before(h, x) ==
  LET g == set_before_no_retain_update(h, x) IN
  IF g.st # "ok" THEN g ELSE calculate_retain_index(g)

set_at_no_retain_update(h, x, i) ==
  IF h.st # "ok" THEN h
  ELSE IF ~((i > 0 /\ is_text(h, x)) \/ (i = 0 /\ ~is_text(h, x)))
    THEN Panic(h, "set_at: index does not fit the node kind")
  ELSE IF ~(op_len(h, x) > i \/ op_len(h, x) = 0)
    THEN Panic(h, "set_at: index beyond node")
  ELSE [h EXCEPT !.cur = [loc |-> "At", nd |-> x, ix |-> i]]

set_at(h, x, i) ==
  LET g == set_at_no_retain_update(h, x, i) IN
  IF g.st # "ok" THEN g ELSE calculate_retain_index(g)

\* Cursor::advance
advance(h) ==
  IF h.st # "ok" THEN h
  ELSE
  LET c == h.cur
      \* the walk over the block that follows, shared by At(block) and After
      over_block(next) ==
        LET n_next == next_node_non_zero_length(h, next) IN
        IF n_next = NoNode THEN h
        ELSE IF is_text(h, n_next) THEN set_before_no_retain_update(h, n_next)
        ELSE set_at_no_retain_update(h, next, 0)
      moved ==
        IF c.loc = "At" THEN
          IF is_text(h, c.nd)
            THEN IF c.ix + 1 < op_len(h, c.nd)
                 THEN set_at_no_retain_update(h, c.nd, c.ix + 1)
                 ELSE set_after_no_retain_update(h, c.nd)
          ELSE IF c.ix # 0 THEN Panic(h, "advance: index of a block")
          ELSE LET next == next_node_non_zero_length(h, c.nd) IN
               IF next = NoNode THEN Fail(h, "AdvanceBeyondEnd")
               ELSE IF is_text(h, next) THEN set_before_no_retain_update(h, next)
               ELSE over_block(next)
        ELSE IF c.loc = "After" THEN
          IF ~is_text(h, c.nd) THEN Panic(h, "advance: After a block")
          ELSE LET next == next_node_non_zero_length(h, c.nd) IN
               IF next = NoNode THEN Fail(h, "AdvanceBeyondEnd")
               ELSE IF is_text(h, next) THEN set_at_no_retain_update(h, next, 1)
               ELSE over_block(next)
        ELSE IF c.loc = "Before" THEN
          IF ~is_text(h, c.nd) THEN Panic(h, "advance: Before a block")
          ELSE set_at_no_retain_update(h, c.nd, 1)
        ELSE Fail(h, "UnexepectedCursorPosNone")
  IN IF moved.st # "ok" THEN moved ELSE [moved EXCEPT !.ret = @ + 1]

\* Cursor::backspace
backspace(h) ==
  IF h.st # "ok" THEN h
  ELSE
  LET c == h.cur
      moved ==
        IF c.loc = "At" THEN
          IF is_text(h, c.nd)
            THEN IF c.ix > 1 THEN set_at_no_retain_update(h, c.nd, c.ix - 1)
                 ELSE IF c.ix # 1 THEN Panic(h, "backspace: index 0 of a leaf")
                 ELSE set_before_no_retain_update(h, c.nd)
          ELSE IF c.ix # 0 THEN Panic(h, "backspace: index of a block")
          ELSE LET prev == prev_node_non_zero_length(h, c.nd) IN
               IF prev = NoNode THEN Fail(h, "BackspaceBeyondStart")
               ELSE IF is_text(h, prev) THEN Panic(h, "backspace: text before an empty block")
               ELSE IF is_empty_block(h, prev) THEN set_at_no_retain_update(h, prev, 0)
               ELSE LET p_prev == prev_node_non_zero_length(h, prev) IN
                    IF p_prev = NoNode THEN Fail(h, "NonEmptyBlockCanNotTraversePrev")
                    ELSE set_after_no_retain_update(h, p_prev)
        ELSE IF c.loc = "Before" THEN
          IF ~is_text(h, c.nd) THEN Panic(h, "backspace: Before a block")
          ELSE LET prev == prev_node_non_zero_length(h, c.nd) IN
               IF prev = NoNode THEN Fail(h, "BackspaceBeyondStart")
               ELSE IF is_text(h, prev)
                 THEN set_at_no_retain_update(h, prev, op_len(h, prev) - 1)
               ELSE LET p_prev == prev_node_non_zero_length(h, prev) IN
                    IF p_prev = NoNode THEN h
                    ELSE IF is_text(h, p_prev) THEN set_after_no_retain_update(h, p_prev)
                    ELSE set_at_no_retain_update(h, prev, 0)
        ELSE IF c.loc = "After" THEN
          IF ~is_text(h, c.nd) THEN Panic(h, "backspace: After a block")
          ELSE IF op_len(h, c.nd) > 1
            THEN set_at_no_retain_update(h, c.nd, op_len(h, c.nd) - 1)
          ELSE set_before_no_retain_update(h, c.nd)
        ELSE Fail(h, "UnexepectedCursorPosNone")
  IN IF moved.st # "ok" THEN moved
     ELSE IF moved.ret > 0 THEN [moved EXCEPT !.ret = @ - 1]
     ELSE Fail(moved, "BackspaceBeyondStart")

set_cursor_to_doc_node_edge(h, x, before) ==
  IF h.st # "ok" THEN h
  ELSE IF is_doc_root(h, x) THEN Panic(h, "edge of the root")
  ELSE
  LET prev == prev_node_non_zero_length(h, x)
      next == next_node_non_zero_length(h, x)
  IN
  With([g \in {IF before
               THEN IF is_text(h, x) THEN set_before(h, x)
                    ELSE IF prev # NoNode
                      THEN IF is_text(h, prev) THEN set_after(h, prev)
                           ELSE IF child_count(h, x) = 0 THEN set_at(h, x, 0)
                           ELSE IF next = NoNode THEN Panic(h, "edge: unwrap on None")
                           ELSE set_before(h, next)
                    ELSE IF get_child(h, ROOT, 1) # x
                      THEN Panic(h, "edge: block without previous is not the first")
                    ELSE set_at(h, x, 0)
               ELSE IF is_text(h, x) THEN set_after(h, x)
                    ELSE IF next # NoNode
                      THEN IF is_text(h, next) THEN set_before(h, next)
                           ELSE IF op_len(h, x) = 0 THEN set_at(h, next, 0)
                           ELSE h
                    ELSE Panic(h, "cursor after the last block of the document")} |->
  IF g.st # "ok" THEN g ELSE calculate_retain_index(g)])

\* ---------------------------------------------------------------------
\* Formats: TextFormat (F_TEXT) and Pblock (F_P-BLOCK), and the Registry
\* holding exactly these two
\* ---------------------------------------------------------------------
\* keys of t_formats / t_attributes that the model carries
TextKeys == {"bold"}

is_nl(op) == op.txt = <<NL>>

\* Pblock::applies
p_applies(op) == is_nl(op)

\* TextFormat::applies
text_applies(op) ==
  /\ ~is_nl(op)
  /\ (op.at = NoAttr \/ op.at \cap TextKeys # {})

\* Registry::is_block_fmt
is_block_fmt(op) == (\E i \in 1..Len(op.txt) : op.txt[i] = NL) /\ p_applies(op)

\* Registry::block_format: TRUE when a block format applies
block_format(op) == p_applies(op)

\* Registry::line_format: TRUE when a text format applies
line_format(op) == text_applies(op)

\* the node lands in the arena; its name is left in h.r
new_node(h, rec) == [h EXCEPT !.n = Append(@, rec), !.r = Len(h.n) + 1]

\* TextFormat::create
text_create(h, txt, at) ==
  new_node(h, [k |-> "text", txt |-> txt, at |-> at, par |-> NoNode,
               ch |-> <<>>, br |-> FALSE])

\* Pblock::create
p_create(h, at) ==
  new_node(h, [k |-> "block", txt |-> <<NL>>, at |-> at, par |-> NoNode,
               ch |-> <<>>, br |-> FALSE])

\* delta::attributes::compose(a, b, keep_null = false); b sets the keys of
\* b.set and clears the keys of b.clr
compose(a, b) == (a \cup b.set) \ b.clr

\* ---------------------------------------------------------------------
\* AutomaticSoftBreak: the <BR> placeholder of an empty block
\* ---------------------------------------------------------------------
has_break(h, x) == h.n[x].br

\* variant: no placeholder is put into the block
soft_break_insert_nothing(h, x) == h

soft_break_insert(h, x) ==
  IF h.st # "ok" THEN h
  ELSE IF child_count(h, x) = 1 /\ is_text(h, h.n[x].ch[1])
    THEN Panic(h, "soft break: single child is a text node")
  ELSE LET dn == IF child_count(h, x) = 1 THEN h.n[x].ch[1] ELSE x IN
    IF child_count(h, dn) # 0 THEN Panic(h, "soft break: node has children")
    ELSE IF has_break(h, dn) THEN Fail(h, "DoubleInsertionOfASoftBreak")
    ELSE [h EXCEPT !.n[dn].br = TRUE]

\* variant: the placeholder stays in the block
soft_break_remove_nothing(h, x) == h

soft_break_remove(h, x) ==
  IF h.st # "ok" THEN h
  ELSE IF is_text(h, x) THEN Panic(h, "soft break: text node")
  ELSE IF h.n[x].br THEN [h EXCEPT !.n[x].br = FALSE]
  ELSE IF child_count(h, x) > 0 THEN Panic(h, "soft break: first child is no BR")
  ELSE Fail(h, "CanNotRemoveASoftBreak")

\* ---------------------------------------------------------------------
\* node_morph
\* ---------------------------------------------------------------------
\* returns the right hand node in h.r
split_text_node(h, x, index) ==
  IF h.st # "ok" THEN h
  ELSE IF index = 0 \/ ~(index < op_len(h, x)) THEN Panic(h, "split_text_node: index")
  ELSE IF get_parent(h, x) = NoNode \/ get_child_index(h, get_parent(h, x), x) = 0
    THEN Panic(h, "split_text_node: unwrap on None")
  ELSE
  LET t == h.n[x].txt
      parent == get_parent(h, x)
      i == get_child_index(h, parent, x)
      h1 == [h EXCEPT !.n[x].txt = SubSeq(t, 1, index)]
      h2 == text_create(h1, SubSeq(t, index + 1, Len(t)), h.n[x].at)
      ret == h2.r
      h3 == insert_at_index(h2, parent, i, ret)
  IN [h3 EXCEPT !.r = ret]

\* variant: the cursor stays where it was
split_text_at_cursor_keeps_cursor(h) ==
  IF h.st # "ok" THEN h
  ELSE IF h.cur.loc = "At" /\ h.cur.ix # 0
    THEN split_text_node(h, h.cur.nd, h.cur.ix)
  ELSE h

split_text_at_cursor(h) ==
  IF h.st # "ok" THEN h
  ELSE IF h.cur.loc = "At" /\ h.cur.ix # 0
    THEN LET h1 == split_text_node(h, h.cur.nd, h.cur.ix) IN
         set_before_no_retain_update(h1, h1.r)
  ELSE h

\* node_morph::merge, on the two operations
merge_ok(h, left, right) == h.n[left].at = h.n[right].at

\* variant: the text of the right node is put before that of the left node
merge_text_node_right_first(h, left, right) ==
  IF h.st # "ok" THEN h
  ELSE IF ~merge_ok(h, left, right) THEN Panic(h, "merge: attributes differ")
  ELSE IF get_parent(h, right) = NoNode THEN Panic(h, "merge_text_node: unwrap on None")
  ELSE LET h1 == unlink(h, get_parent(h, right), right) IN
       [h1 EXCEPT !.n[left].txt = h.n[right].txt \o h.n[left].txt]

merge_text_node(h, left, right) ==
  IF h.st # "ok" THEN h
  ELSE IF ~merge_ok(h, left, right) THEN Panic(h, "merge: attributes differ")
  ELSE IF get_parent(h, right) = NoNode THEN Panic(h, "merge_text_node: unwrap on None")
  ELSE LET h1 == unlink(h, get_parent(h, right), right) IN
       [h1 EXCEPT !.n[left].txt = h.n[left].txt \o h.n[right].txt]

TextMergeable(h, a, b) == h.n[a].at = h.n[b].at

try_3_way_merge_text(h) ==
  IF h.st # "ok" THEN h
  ELSE IF h.cur.loc = "None" THEN h
  ELSE IF h.cur.loc = "At" /\ op_len(h, h.cur.nd) = 0
    THEN Panic(h, "try_3_way_merge_text: empty block node")
  ELSE
  LET c == h.cur
      pv == IF c.loc = "Before" THEN prev_sibling(h, c.nd) ELSE NoNode
      location == IF c.loc = "Before"
                  THEN (IF pv # NoNode THEN "After" ELSE "Before")
                  ELSE c.loc
      position == IF c.loc = "Before"
                  THEN (IF pv # NoNode THEN op_len(h, pv) ELSE 0)
                  ELSE IF c.loc = "After" THEN op_len(h, c.nd)
                  ELSE c.ix
      dn == IF c.loc = "Before" /\ pv # NoNode THEN pv ELSE c.nd
      n == next_sibling(h, dn)
      mright == n # NoNode /\ TextMergeable(h, dn, n)
      loc1 == IF mright THEN "At" ELSE location
  IN
  With([h1 \in {IF mright
                THEN IF location = "Before"
                     THEN Panic(merge_text_node(h, dn, n), "This case can never happen")
                     ELSE set_at_no_retain_update(merge_text_node(h, dn, n), dn, position)
                ELSE h} |->
  IF h1.st # "ok" THEN h1
  ELSE
  LET p == prev_sibling(h1, dn)
      mleft == p # NoNode /\ TextMergeable(h1, dn, p)
  IN
  IF ~mleft THEN h1
  ELSE LET prev_len == op_len(h1, p) IN
       IF loc1 = "Before"
         THEN Panic(merge_text_node(h1, p, dn), "This case can never happen")
       ELSE IF loc1 = "After"
         THEN set_after_no_retain_update(merge_text_node(h1, p, dn), p)
       ELSE set_at_no_retain_update(merge_text_node(h1, p, dn), p, prev_len + position)])

\* node_morph::delete_node
delete_node(h, x) ==
  IF h.st # "ok" THEN h
  ELSE IF ~is_text(h, x) /\ child_count(h, x) # 0
    THEN Panic(h, "delete_node: block with children")
  ELSE IF get_parent(h, x) = NoNode THEN Panic(h, "delete_node: unwrap on None")
  ELSE unlink(h, get_parent(h, x), x)

\* the segment removed is one character longer than asked
delete_leaf_segment_one_more(h, x, at0, length) ==
  IF h.st # "ok" THEN h
  ELSE IF ~is_text(h, x) THEN Panic(h, "delete_leaf_segment on a block")
  ELSE IF ~(op_len(h, x) > length) THEN Panic(h, "delete_text: whole node")
  ELSE IF ~(op_len(h, x) >= at0 + length) THEN Panic(h, "delete_text: beyond node")
  ELSE [h EXCEPT !.n[x].txt =
          SubSeq(@, 1, at0) \o SubSeq(@, at0 + length + 2, Len(@))]

\* TextFormat::delete_leaf_segment -> node_morph::delete_text
delete_leaf_segment(h, x, at0, length) ==
  IF h.st # "ok" THEN h
  ELSE IF ~is_text(h, x) THEN Panic(h, "delete_leaf_segment on a block")
  ELSE IF ~(op_len(h, x) > length) THEN Panic(h, "delete_text: whole node")
  ELSE IF ~(op_len(h, x) >= at0 + length) THEN Panic(h, "delete_text: beyond node")
  ELSE [h EXCEPT !.n[x].txt =
          SubSeq(@, 1, at0) \o SubSeq(@, at0 + length + 1, Len(@))]

\* FormatTait::try_merge of the node's format: TextFormat merges text
\* around the cursor, Pblock merges nothing
try_merge(h, x) ==
  IF h.st # "ok" THEN h
  ELSE IF is_text(h, x) THEN try_3_way_merge_text(h)
  ELSE IF is_doc_root(h, x) THEN Panic(h, "RootFormat::try_merge")
  ELSE h

\* ---------------------------------------------------------------------
\* op_delete
\* ---------------------------------------------------------------------
RECURSIVE move_children_to_back(_, _, _, _)
\* the children of src, first one first, each appended to dst
move_children_to_back(h, src, dst, kids) ==
  IF kids = <<>> \/ h.st # "ok" THEN h
  ELSE LET c == kids[1]
           h1 == unlink(h, src, c)
           h2 == append(h1, dst, c)
       IN move_children_to_back(h2, src, dst, SubSeq(kids, 2, Len(kids)))

\* the children of src, last one first, each moved to the front of dst
RECURSIVE move_children_to_front(_, _, _, _)
move_children_to_front(h, src, dst, kids) ==
  IF kids = <<>> \/ h.st # "ok" THEN h
  ELSE LET c == kids[Len(kids)]
           h1 == unlink(h, src, c)
           h2 == insert_at_index(h1, dst, 0, c)
       IN move_children_to_front(h2, src, dst, SubSeq(kids, 1, Len(kids) - 1))

delete_document_node(h, x) ==
  IF h.st # "ok" THEN h
  ELSE
  LET parent == next_block(h, x) IN
  IF parent = NoNode
    THEN IF ~is_text(h, x) THEN Fail(h, "DeletingLastBlock")
         ELSE Fail(h, "CanNotFindNextBlock")
  ELSE IF is_text(h, x)
    THEN LET h1 == delete_node(h, x) IN
         IF h1.st = "ok" /\ is_empty_block(h1, parent)
         THEN soft_break_insert(h1, parent) ELSE h1
  ELSE IF child_count(h, x) = 0 THEN delete_node(h, x)
  ELSE
    With([h1 \in {IF is_empty_block(h, parent) THEN soft_break_remove(h, parent)
                  ELSE h} |->
    IF h1.st # "ok" THEN h1
    ELSE IF get_parent(h1, x) = NoNode THEN Panic(h1, "delete: unwrap on None")
    ELSE
    With([h2 \in {unlink(h1, get_parent(h1, x), x)} |->
    With([h3 \in {move_children_to_front(h2, x, parent, h2.n[x].ch)} |->
    IF h3.st # "ok" THEN h3
    ELSE IF child_count(h3, x) # 0 THEN Panic(h3, "delete: children left")
    ELSE delete_node(h3, x)])])])

\* the cursor is put on the node left of x; h.r = 1 when one was found
find_left_node_and_set_cursor(h, x) ==
  LET prev == prev_node(h, x) IN
  IF prev = NoNode THEN [h EXCEPT !.r = 0]
  ELSE LET g == IF is_text(h, prev) THEN set_after_no_retain_update(h, prev)
                ELSE IF child_count(h, prev) = 0 THEN set_at_no_retain_update(h, prev, 0)
                ELSE set_after_no_retain_update(h, h.n[prev].ch[child_count(h, prev)])
       IN [g EXCEPT !.r = 1]

\* the while loop of delete(); h.r = 1 on return marks the early "return Ok"
RECURSIVE delete_loop(_, _, _)
delete_loop(h, dn, del) ==
  IF h.st # "ok" \/ del = 0 THEN [h EXCEPT !.r = 0]
  ELSE
  LET ol == op_len(h, dn)
      next == next_node_non_zero_length(h, dn)
  IN
  IF del > ol THEN
    IF next # NoNode
    THEN delete_loop(delete_document_node(h, dn), next, del - ol)
    ELSE With([f \in {find_left_node_and_set_cursor(h, dn)} |->
         With([h1 \in {delete_document_node(f, dn)} |->
         IF h1.st # "ok" THEN h1
         ELSE IF f.r = 0 THEN Fail(h1, "DeleteOperationOnEmptyDocument")
         ELSE [h1 EXCEPT !.r = 1]])])
  ELSE IF del = ol THEN
    IF next # NoNode
    THEN delete_loop(set_cursor_to_doc_node_edge(delete_document_node(h, dn),
                                                 next, TRUE),
                     next, 0)
    ELSE With([f \in {find_left_node_and_set_cursor(h, dn)} |->
         With([h1 \in {delete_document_node(f, dn)} |->
         IF h1.st # "ok" THEN h1
         ELSE IF f.r = 0 THEN Fail(h1, "DeleteOperationOnEmptyDocument")
         ELSE delete_loop(h1, dn, 0)])])
  ELSE
    delete_loop(set_before_no_retain_update(delete_leaf_segment(h, dn, 0, del), dn),
                dn, 0)

delete_finish(h) ==
  IF h.st # "ok" \/ h.r = 1 THEN h
  ELSE With([h1 \in {try_merge(h, h.cur.nd)} |->
       IF h1.st # "ok" THEN h1
       ELSE IF ~(op_len(h1, h1.cur.nd) > 0) THEN Panic(h1, "cursor on a zero length node")
       ELSE h1])

delete(h, delete_len) ==
  LET c == h.cur
      nx == next_node_non_zero_length(h, c.nd)
      in_text == c.loc = "At" /\ is_text(h, c.nd)
  IN
  IF c.loc = "None" THEN Fail(h, "UnexpectedCursorPosition")
  ELSE IF c.loc = "After" /\ nx = NoNode THEN h
  ELSE IF c.loc = "At" /\ ~is_text(h, c.nd) /\ c.ix # 0
    THEN Panic(h, "assert_eq!(idx, 0)")
  ELSE
  \* let (mut dn, mut del) = match cursor.get_location()
  With([h1 \in {IF in_text THEN split_text_node(h, c.nd, c.ix) ELSE h} |->
  delete_finish(delete_loop(
    IF in_text THEN set_after_no_retain_update(h1, c.nd) ELSE h1,
    IF in_text THEN h1.r ELSE IF c.loc = "After" THEN nx ELSE c.nd,
    delete_len))])

\* ---------------------------------------------------------------------
\* util::block : block_transform / un_block_transform
\* ---------------------------------------------------------------------
\* variant: the children stay with the old block
move_children_to_end_skipped(h, src, dst, kids) == h

RECURSIVE move_children_to_end(_, _, _, _)
move_children_to_end(h, src, dst, kids) ==
  IF kids = <<>> \/ h.st # "ok" THEN h
  ELSE LET c == kids[1]
           h1 == unlink(h, src, c)
           h2 == append(h1, dst, c)
       IN move_children_to_end(h2, src, dst, SubSeq(kids, 2, Len(kids)))

\* the block is replaced by a new Pblock node carrying the attributes at;
\* block_transform and un_block_transform differ in at only.  Result in h.r
replace_block(h, block, at) ==
  IF h.st # "ok" THEN h
  ELSE IF get_parent(h, block) = NoNode THEN Panic(h, "block without parent")
  ELSE IF is_text(h, block) THEN Panic(h, "block transform of a text node")
  ELSE IF h.cur.loc = "None" THEN Panic(h, "get_doc_node(): cursor position is NONE")
  ELSE
  LET update_cursor == h.cur.nd = block
      parent == get_parent(h, block)
      h1 == p_create(h, at)
      nb == h1.r
      h2 == insert_before(h1, parent, block, nb)
      h3 == unlink(h2, parent, block)
      h4 == IF update_cursor THEN set_at_no_retain_update(h3, nb, 0)
            ELSE move_children_to_end(h3, block, nb, h3.n[block].ch)
  IN [h4 EXCEPT !.r = nb]

un_block_transform(h, block) == replace_block(h, block, h.n[block].at)

block_transform(h, block, at) == replace_block(h, block, at)

\* ---------------------------------------------------------------------
\* TextFormat::drop_line_attributes / apply_line_attributes
\* ---------------------------------------------------------------------
\* the leaf is replaced, at its index, by a new leaf with the same text and
\* the attributes at.  Result in h.r
replace_leaf(h, x, at) ==
  IF h.st # "ok" THEN h
  ELSE IF get_parent(h, x) = NoNode \/ get_child_index(h, get_parent(h, x), x) = 0
    THEN Panic(h, "my_index_as_child: unwrap on None")
  ELSE IF ~is_text(h, x) THEN Panic(h, "line attributes of a block")
  ELSE
  LET parent == get_parent(h, x)
      index == get_child_index(h, parent, x)
      h1 == text_create(h, h.n[x].txt, at)
      nn == h1.r
      h2 == unlink(h1, parent, x)
      h3 == insert_at_index(h2, parent, index - 1, nn)
  IN [h3 EXCEPT !.r = nn]

drop_line_attributes(h, x) == replace_leaf(h, x, NoAttr)

apply_line_attributes(h, x, at) == replace_leaf(h, x, at)

\* ---------------------------------------------------------------------
\* op_retain
\* ---------------------------------------------------------------------
\* result node in h.r
retain_block_format(h, x, attr) ==
  IF h.st # "ok" THEN h
  ELSE
  LET at == compose(h.n[x].at, attr)
      op == [txt |-> <<NL>>, at |-> at]
  IN
  With([h1 \in {un_block_transform(h, x)} |->
  IF h1.st # "ok" THEN h1
  ELSE IF ~block_format(op) THEN Fail(h1, "RegistryNoFormatForOp")
  ELSE
  With([h2 \in {block_transform(h1, h1.r, at)} |->
  IF h2.st # "ok" THEN h2
  ELSE IF child_count(h2, h2.r) = 0
    THEN [soft_break_insert(h2, h2.r) EXCEPT !.r = h2.r]
  ELSE h2])])

\* the format is looked up for the operation the leaf had before the retain
retain_text_lookup_op(h, x, attr) == [txt |-> h.n[x].txt, at |-> h.n[x].at]

\* result node in h.r
retain_text_format(h, x, attr) ==
  IF h.st # "ok" THEN h
  ELSE
  LET at == compose(h.n[x].at, attr) IN
  With([h1 \in {drop_line_attributes(h, x)} |->
  IF h1.st # "ok" THEN h1
  ELSE IF ~line_format(retain_text_lookup_op(h, x, attr))
    THEN Fail(h1, "RegistryNoFormatForOp")
  ELSE apply_line_attributes(h1, h1.r, at)])

retain_format(h, x, attr) ==
  IF is_text(h, x) THEN retain_text_format(h, x, attr)
  ELSE retain_block_format(h, x, attr)

\* variant: nothing is merged after a node has been retained
merge_at_cursor_skipped(h) == h

merge_at_cursor(h) ==
  IF h.st # "ok" THEN h
  ELSE IF h.cur.loc = "None" THEN Panic(h, "get_doc_node(): cursor position is NONE")
  ELSE try_merge(h, h.cur.nd)

RECURSIVE retain_attributed_loop(_, _, _, _)
retain_attributed_loop(h, dn, rtn, attr) ==
  IF h.st # "ok" \/ rtn = 0 THEN h
  ELSE
  LET ol == op_len(h, dn) IN
  IF rtn >= ol THEN
    With([h1 \in {retain_format(h, dn, attr)} |->
    IF h1.st # "ok" THEN h1
    ELSE LET nd == h1.r
             next == next_node_non_zero_length(h1, nd)
         IN IF next # NoNode
            THEN retain_attributed_loop(
                   merge_at_cursor(set_cursor_to_doc_node_edge(h1, next, TRUE)),
                   next, IF rtn > ol THEN rtn - ol ELSE 0, attr)
            ELSE set_after_no_retain_update(h1, nd)])
  ELSE
    With([h1 \in {split_text_node(h, dn, rtn)} |->
    retain_attributed_loop(
      merge_at_cursor(set_cursor_to_doc_node_edge(
                        retain_text_format(h1, dn, attr), h1.r, TRUE)),
      h1.r, 0, attr)])

retain_attributed(h, retain_len, attr) ==
  LET c == h.cur
      nx == next_node_non_zero_length(h, c.nd)
      in_text == c.loc = "At" /\ is_text(h, c.nd)
  IN
  IF c.loc = "None" THEN Panic(h, "retain(): Cursor at NONE position")
  ELSE IF c.loc = "After" /\ nx = NoNode THEN h
  ELSE
  \* let (mut dn, mut rtn) = match cursor.get_location()
  With([h1 \in {IF in_text THEN split_text_node(h, c.nd, c.ix) ELSE h} |->
  retain_attributed_loop(
    h1,
    IF in_text THEN h1.r ELSE IF c.loc = "After" THEN nx ELSE c.nd,
    retain_len, attr)])

RECURSIVE retain_length_loop(_, _, _)
retain_length_loop(h, dn, rtn) ==
  IF h.st # "ok" \/ rtn = 0 THEN h
  ELSE
  LET ol == op_len(h, dn) IN
  IF rtn >= ol THEN
    LET next == next_node_non_zero_length(h, dn) IN
    IF next = NoNode THEN set_cursor_to_doc_node_edge(h, dn, FALSE)
    ELSE IF rtn - ol = 0 THEN set_cursor_to_doc_node_edge(h, next, TRUE)
    ELSE retain_length_loop(h, next, rtn - ol)
  ELSE set_at_no_retain_update(h, dn, rtn)

\* the index of an At cursor inside a leaf is not added to the count
retain_length_from_node_start(h, retain_len) ==
  LET c == h.cur
      nx == next_node_non_zero_length(h, c.nd)
  IN
  IF c.loc = "None" THEN Panic(h, "retain(): Cursor at NONE position")
  ELSE IF c.loc = "After" /\ nx = NoNode THEN h
  ELSE retain_length_loop(h, IF c.loc = "After" THEN nx ELSE c.nd, retain_len)

retain_length(h, retain_len) ==
  LET c == h.cur
      nx == next_node_non_zero_length(h, c.nd)
  IN
  IF c.loc = "None" THEN Panic(h, "retain(): Cursor at NONE position")
  ELSE IF c.loc = "After" /\ nx = NoNode THEN h
  ELSE
  \* let (mut dn, mut rtn) = match cursor.get_location()
  retain_length_loop(
    h,
    IF c.loc = "After" THEN nx ELSE c.nd,
    IF c.loc = "At" /\ is_text(h, c.nd) THEN retain_len + c.ix ELSE retain_len)

attr_is_empty(attr) == attr.set = {} /\ attr.clr = {}

retain(h, count, attr) ==
  LET h1 == [h EXCEPT !.ret = h.ret + count] IN
  IF attr_is_empty(attr) THEN retain_length(h1, count)
  ELSE retain_attributed(h1, count, attr)

\* ---------------------------------------------------------------------
\* node_morph: splitting of blocks
\* ---------------------------------------------------------------------
\* FormatTait::clone_doc_node: same format and operation, no children
clone_doc_node(h, x) == p_create(h, h.n[x].at)

\* result (the right hand block) in h.r
split_block_before_child(h, block_left, child) ==
  IF h.st # "ok" THEN h
  ELSE IF get_child_index(h, block_left, child) = 0
    THEN Panic(h, "split_block_before_child: unwrap on None")
  ELSE
  LET child_index == get_child_index(h, block_left, child)
      h1 == clone_doc_node(h, block_left)
      block_right == h1.r
      kids == h.n[block_left].ch
      h2 == move_children_to_end(h1, block_left, block_right,
                                 SubSeq(kids, child_index, Len(kids)))
      h3 == IF get_parent(h2, block_left) = NoNode
            THEN Panic(h2, "split_block_before_child: no parent")
            ELSE insert_after(h2, get_parent(h2, block_left), block_left, block_right)
  IN [h3 EXCEPT !.r = block_right]

\* result (the added block) in h.r
insert_empty_block_node_after_cursor(h) ==
  IF h.st # "ok" THEN h
  ELSE
  LET dn == h.cur.nd
      parent == IF is_text(h, dn) THEN get_parent(h, dn) ELSE dn
      h1 == p_create(h, h.n[parent].at)
      h2 == insert_after(h1, get_parent(h1, parent), parent, h1.r)
  IN [h2 EXCEPT !.r = h1.r]

split_block_at_cursor(h) ==
  IF h.st # "ok" THEN h
  ELSE
  LET c == h.cur IN
  IF c.loc = "At" THEN
    IF c.ix # 0 THEN Panic(h, "split_block_at_cursor: cursor pointing to text node")
    ELSE IF is_text(h, c.nd) THEN Panic(h, "split_block_at_cursor: text format")
    ELSE LET h1 == p_create(h, h.n[c.nd].at)
             h2 == insert_after(h1, get_parent(h1, c.nd), c.nd, h1.r)
         IN set_at_no_retain_update(h2, h1.r, 0)
  ELSE IF c.loc = "After" THEN
    IF next_sibling(h, c.nd) # NoNode
    THEN split_block_before_child(h, get_parent(h, c.nd), next_sibling(h, c.nd))
    ELSE LET h1 == insert_empty_block_node_after_cursor(h) IN
         set_at_no_retain_update(h1, h1.r, 0)
  ELSE IF c.loc = "Before"
    THEN split_block_before_child(h, get_parent(h, c.nd), c.nd)
  ELSE h

split_text_and_block_at_cursor(h) ==
  IF h.st # "ok" THEN h
  ELSE IF h.cur.loc = "None" THEN Panic(h, "get_doc_node(): cursor position is NONE")
  ELSE IF get_parent(h, h.cur.nd) = NoNode
    THEN Panic(h, "split_text_and_block_at_cursor: unwrap on None")
  ELSE
  LET c == h.cur
      leaf_node == c.nd
      parent == get_parent(h, leaf_node)
  IN
  IF ~is_text(h, leaf_node) THEN
    LET h1 == insert_empty_block_node_after_cursor(h) IN
    set_at_no_retain_update(h1, h1.r, 0)
  ELSE IF c.loc = "At" THEN split_block_at_cursor(split_text_at_cursor(h))
  ELSE IF c.loc = "Before" THEN split_block_before_child(h, parent, leaf_node)
  ELSE
    LET next == next_sibling(h, leaf_node) IN
    IF next # NoNode
    THEN set_before_no_retain_update(split_block_before_child(h, parent, next), next)
    ELSE LET h1 == clone_doc_node(h, parent)
             h2 == insert_after(h1, get_parent(h1, parent), parent, h1.r)
         IN set_at_no_retain_update(h2, h1.r, 0)

\* ---------------------------------------------------------------------
\* op_insert
\* ---------------------------------------------------------------------
insert_new_block(h, op) ==
  IF h.st # "ok" THEN h
  ELSE IF h.cur.loc = "None" THEN Panic(h, "get_doc_node(): cursor position is NONE")
  ELSE IF is_text(h, h.cur.nd) THEN
    With([h1 \in {split_text_and_block_at_cursor(h)} |->
    IF h1.st # "ok" THEN h1
    ELSE
    LET left_node == prev_node_non_zero_length(h1, h1.cur.nd) IN
    IF left_node = NoNode THEN Panic(h1, "insert_new_block: unwrap on None")
    ELSE
    LET left_parent == IF is_text(h1, left_node) THEN get_parent(h1, left_node)
                       ELSE left_node
        right_parent == next_sibling(h1, left_parent)
    IN
    With([h2 \in {IF right_parent # NoNode /\ is_empty_block(h1, right_parent)
                  THEN soft_break_insert(h1, right_parent) ELSE h1} |->
    With([h3 \in {un_block_transform(h2, left_parent)} |->
    With([h4 \in {IF ~block_format(op) THEN Fail(h3, "RegistryNoFormatForOp")
                  ELSE block_transform(h3, h3.r, op.at)} |->
    With([h5 \in {IF h4.st = "ok" /\ is_empty_block(h4, h4.r)
                  THEN soft_break_insert(h4, h4.r) ELSE h4} |->
    IF right_parent # NoNode THEN try_merge(h5, right_parent) ELSE h5])])])])])
  ELSE
    LET right == h.cur.nd IN
    IF ~block_format(op) THEN Fail(h, "RegistryNoFormatForOp")
    ELSE
    With([h1 \in {p_create(h, op.at)} |->
    With([h2 \in {soft_break_insert(h1, h1.r)} |->
    With([h3 \in {IF get_parent(h2, right) = NoNode
                  THEN Panic(h2, "insert_new_block: unwrap on None")
                  ELSE insert_before(h2, get_parent(h2, right), right, h1.r)} |->
    With([h4 \in {try_merge(h3, h1.r)} |->
    IF h4.st = "ok" /\ get_child_index(h4, get_parent(h4, h1.r), right) # 0
    THEN try_merge(h4, right) ELSE h4])])])])

insert_new_text(h, op) ==
  IF h.st # "ok" THEN h
  ELSE IF h.cur.loc = "At" /\ ~is_text(h, h.cur.nd) /\ child_count(h, h.cur.nd) = 0 THEN
    LET block == h.cur.nd
        h1 == soft_break_remove(h, block)
        h2 == text_create(h1, op.txt, op.at)
        doc_node == h2.r
        h3 == set_after_no_retain_update(h2, doc_node)
        h4 == append(h3, block, doc_node)
    IN try_3_way_merge_text(h4)
  ELSE IF h.cur.loc = "None" THEN Panic(h, "get_doc_node(): cursor position is NONE")
  ELSE IF ~is_text(h, h.cur.nd) THEN Panic(h, "P-BLOCK -- You called: split_leaf()")
  ELSE
  With([h1 \in {split_text_at_cursor(h)} |->
  IF h1.st # "ok" THEN h1
  ELSE
  With([h2 \in {text_create(h1, op.txt, op.at)} |->
  LET dn == h1.cur.nd
      new == h2.r
  IN try_3_way_merge_text(
       IF get_parent(h2, dn) = NoNode
         THEN Panic(h2, "insert_new_text: unwrap on None")
       ELSE IF h1.cur.loc = "After"
         THEN set_after_no_retain_update(
                insert_after(h2, get_parent(h2, dn), dn, new), new)
       ELSE IF h1.cur.loc = "Before"
         THEN insert_before(set_after_no_retain_update(h2, new),
                            get_parent(h2, dn), dn, new)
       ELSE set_after_no_retain_update(
                insert_before(h2, get_parent(h2, dn), dn, new), new))])])

\* the closing assertion of insert: the cursor is not on a zero length leaf
insert_post(h) ==
  IF h.st # "ok" THEN h
  ELSE IF h.cur.loc = "None" THEN Panic(h, "get_doc_node(): cursor position is NONE")
  ELSE IF is_text(h, h.cur.nd) /\ op_len(h, h.cur.nd) = 0
    THEN Panic(h, "insert: cursor on a node of length 0")
  ELSE h

insert(h, op) ==
  IF h.st # "ok" THEN h
  ELSE
  LET h1 == [h EXCEPT !.ret = h.ret + Len(op.txt)] IN
  IF is_block_fmt(op) THEN insert_post(insert_new_block(h1, op))
  ELSE IF ~line_format(op) THEN Fail(h1, "RegistryNoFormatForOp")
  ELSE insert_post(insert_new_text(h1, op))

\* ---------------------------------------------------------------------
\* The document as a sequence of characters, and the arena kept compact
\* ---------------------------------------------------------------------
RECURSIVE preorder(_, _)
\* the nodes reachable from the nodes in todo through child lists, parents
\* first, children in order
preorder(h, todo) ==
  IF todo = <<>> THEN <<>>
  ELSE <<todo[1]>> \o preorder(h, h.n[todo[1]].ch \o SubSeq(todo, 2, Len(todo)))

RECURSIVE dedupe(_)
dedupe(s) ==
  IF s = <<>> THEN <<>>
  ELSE LET r == dedupe(SubSeq(s, 1, Len(s) - 1)) IN
       IF IndexOf(r, s[Len(s)]) # 0 THEN r ELSE Append(r, s[Len(s)])

attached(h) == dedupe(preorder(h, <<ROOT>>))

\* nodes that no child list reaches are dropped (their Arc is released) and
\* the others renumbered in document order; a reference to a dropped node
\* becomes NoNode
Normalize(h) ==
  LET ord == attached(h)
      new(x) == IF x = NoNode THEN NoNode ELSE IndexOf(ord, x)
      ren(s) == [i \in 1..Len(s) |-> new(s[i])]
  IN [h EXCEPT
        !.n = [i \in 1..Len(ord) |->
                 [h.n[ord[i]] EXCEPT !.par = new(@), !.ch = ren(@)]],
        !.cur = [@ EXCEPT !.nd = new(@)],
        !.r = 0]

RECURSIVE flat_nodes(_, _)
\* the characters of the listed nodes and of their descendants, descendants
\* first, each with the attributes of the node that holds it
flat_nodes(h, s) ==
  IF s = <<>> THEN <<>>
  ELSE LET x == s[1]
           own == IF is_text(h, x)
                  THEN [i \in 1..Len(h.n[x].txt) |-> [c |-> h.n[x].txt[i], at |-> h.n[x].at]]
                  ELSE <<[c |-> NL, at |-> h.n[x].at]>>
       IN flat_nodes(h, h.n[x].ch) \o own \o flat_nodes(h, SubSeq(s, 2, Len(s)))

\* DocumentRoot::to_delta, one entry per character
Flat(h) == flat_nodes(h, h.n[ROOT].ch)

doc_len(h) == Len(Flat(h))

\* ---------------------------------------------------------------------
\* DocumentRoot
\* ---------------------------------------------------------------------
NoCursor == [loc |-> "None", nd |-> NoNode, ix |-> 0]

RECURSIVE unlink_all(_, _)
unlink_all(h, kids) ==
  IF kids = <<>> THEN h
  ELSE unlink_all(unlink(h, ROOT, kids[1]), SubSeq(kids, 2, Len(kids)))

close(h) == unlink_all(h, h.n[ROOT].ch)

\* DocumentRoot::set_mode -> edit_mode: the mode after the call; tree and
\* cursor are not touched
edit_mode(mode_now, mode_new) == mode_new

open(h, mode_now) ==
  LET h0 == IF mode_now # "Closed" THEN close(h) ELSE h
      op == [txt |-> <<NL>>, at |-> NoAttr]
  IN IF ~block_format(op) THEN Fail(h0, "RegistryNoFormatForOp")
     ELSE LET h1 == p_create(h0, op.at)
              block == h1.r
              h2 == soft_break_insert(h1, block)
              h3 == append(h2, ROOT, block)
          IN set_at(h3, block, 0)

cursor_to_start(h) ==
  IF child_count(h, ROOT) = 0
    THEN Panic(h, "there must be a first node which is NOT the root")
  ELSE LET first == first_node(h) IN
       IF is_text(h, first) THEN set_before(h, first)
       ELSE IF child_count(h, first) # 0 THEN Panic(h, "cursor_to_start: assert")
       ELSE set_at(h, first, 0)

cursor_to_end(h) ==
  IF child_count(h, ROOT) = 0 THEN Panic(h, "last_block_node: assert len > 0")
  ELSE set_cursor_to_doc_node_edge(h, last_block_node(h), TRUE)

RECURSIVE split_on_nl(_)
\* str::split('\n'): the pieces between the line terminators
split_on_nl(t) ==
  IF \A i \in 1..Len(t) : t[i] # NL THEN <<t>>
  ELSE LET i == CHOOSE j \in 1..Len(t) :
                  t[j] = NL /\ \A k \in 1..(j - 1) : t[k] # NL
       IN <<SubSeq(t, 1, i - 1)>> \o split_on_nl(SubSeq(t, i + 1, Len(t)))

RECURSIVE lines_to_ops(_, _)
lines_to_ops(ps, at) ==
  IF ps = <<>> THEN <<>>
  ELSE (IF ps[1] # <<>> THEN <<[txt |-> ps[1], at |-> at]>> ELSE <<>>)
       \o <<[txt |-> <<NL>>, at |-> at]>>
       \o lines_to_ops(SubSeq(ps, 2, Len(ps)), at)

\* variant: the line terminator added behind the last piece is kept
split_text_lines_keeps_last(op) ==
  IF Len(op.txt) = 1 THEN <<op>>
  ELSE lines_to_ops(split_on_nl(op.txt), op.at)

split_text_lines(op) ==
  IF Len(op.txt) = 1 THEN <<op>>
  ELSE LET ops == lines_to_ops(split_on_nl(op.txt), op.at) IN
       IF Len(ops) > 1 THEN SubSeq(ops, 1, Len(ops) - 1) ELSE ops

RECURSIVE insert_all(_, _)
insert_all(h, ops) ==
  IF ops = <<>> \/ h.st # "ok" THEN h
  ELSE insert_all(insert(h, ops[1]), SubSeq(ops, 2, Len(ops)))

\* apply_operation without the check of the mode
apply_operation_any_mode(h, mode_now, operation) ==
  IF operation.kind = "Insert"
    THEN insert_all(h, split_text_lines([txt |-> operation.txt, at |-> operation.at]))
  ELSE IF operation.kind = "Delete" THEN delete(h, operation.len)
  ELSE retain(h, operation.len, operation.attr)

\* operation: [kind, txt, at] for Insert, [kind, len] for Delete,
\* [kind, len, attr] for Retain
apply_operation(h, mode_now, operation) ==
  IF mode_now # "Edit" THEN Fail(h, "DocumentNotOpenForEdit")
  ELSE IF operation.kind = "Insert"
    THEN insert_all(h, split_text_lines([txt |-> operation.txt, at |-> operation.at]))
  ELSE IF operation.kind = "Delete" THEN delete(h, operation.len)
  ELSE retain(h, operation.len, operation.attr)

\* DocumentRoot::reset_cursor
reset_cursor(h) ==
  IF child_count(h, ROOT) = 0
    THEN Panic(h, "there must be a first node which is NOT the root")
  ELSE LET node == first_node(h) IN
       IF is_text(h, node) THEN set_before(h, node) ELSE set_at(h, node, 0)

RECURSIVE apply_all(_, _, _)
\* for op in delta.get_ops() { self.apply_operation(op)?; }
apply_all(h, mode_now, ops) ==
  IF ops = <<>> \/ h.st # "ok" THEN h
  ELSE apply_all(apply_operation(h, mode_now, ops[1]), mode_now,
                 SubSeq(ops, 2, Len(ops)))

\* the closing self.cursor.calculate_retain_index() drops the value it
\* computes: only its panics are left of it
apply_delta(h, mode_now, ops) ==
  IF mode_now # "Edit" THEN Fail(h, "DocumentNotOpenForEdit")
  ELSE With([g \in {apply_all(reset_cursor(h), mode_now, ops)} |->
       IF g.st # "ok" THEN g
       ELSE IF g.cur.loc = "None" THEN Panic(g, "calculate_retain_index: NONE")
       ELSE IF is_doc_root(g, g.cur.nd) THEN Panic(g, "calculate_retain_index: root")
       ELSE g])

\* ---------------------------------------------------------------------
\* The editor as a state machine
\* ---------------------------------------------------------------------
VARIABLES
  nodes,         \* the DocumentNode arena; nodes[ROOT] is DocumentRoot.root
  cursor,        \* Cursor.start
  retain_index,  \* Cursor.retain
  mode,          \* DocumentRoot.mode
  result,        \* outcome of the last call: [st, e]
  last,          \* the last call and its arguments
  pre,           \* tree, cursor and retain index when the last call began
  registry       \* the process-wide REGISTRY

vars == <<nodes, cursor, retain_index, mode, result, last, pre, registry>>

Heap == [n |-> nodes, cur |-> cursor, ret |-> retain_index,
         st |-> "ok", e |-> "", r |-> 0]

Snapshot == [n |-> nodes, cur |-> cursor, ret |-> retain_index]

\* the state left behind by a call that ended in heap g
Commit(g, call) ==
  LET z == Normalize(g) IN
  /\ nodes' = z.n
  /\ cursor' = z.cur
  /\ retain_index' = z.ret
  /\ result' = [st |-> g.st, e |-> g.e]
  /\ last' = call
  /\ UNCHANGED registry
  /\ pre' = Snapshot

\* inputs
InsertTexts == {<<"a">>, <<NL>>, <<"a", NL>>, <<"a", "a">>, <<"a", NL, "a">>}

InsertAttrs == {NoAttr, {"bold"}, {"align"}}

NoChange == [set |-> {}, clr |-> {}]

\* {bold: true} and {bold: null}
Bold == [set |-> {"bold"}, clr |-> {}]

Unbold == [set |-> {}, clr |-> {"bold"}]

RetainAttrs == {NoChange, Bold, Unbold}

Counts == 0..MaxCount

NoCall == [kind |-> "New"]

\* ---------------------------------------------------------------------
\* op_transform::registry
\* ---------------------------------------------------------------------
\* Registry::default
EmptyRegistry ==
  [block_formats |-> <<>>, text_formats |-> <<>>,
   block_order |-> <<>>, text_order |-> <<>>]

\* the label is pushed on the order, the formatter put in the HashMap
register_block_fmt(r, label, formatter) ==
  [r EXCEPT !.block_order = Append(@, label),
            !.block_formats = [l \in DOMAIN @ \cup {label} |->
                                 IF l = label THEN formatter ELSE @[l]]]

register_line_fmt(r, label, formatter) ==
  [r EXCEPT !.text_order = Append(@, label),
            !.text_formats = [l \in DOMAIN @ \cup {label} |->
                                IF l = label THEN formatter ELSE @[l]]]

\* the registry is that of init_test_registry
Init ==
  /\ registry = register_line_fmt(
                  register_block_fmt(EmptyRegistry, "F_P-BLOCK", "P_FORMAT"),
                  "F_TEXT", "TEXT_FORMAT")
  /\ nodes = <<mk_root>>
  /\ cursor = NoCursor
  /\ retain_index = 0
  /\ mode = "Read"
  /\ result = [st |-> "ok", e |-> ""]
  /\ last = NoCall
  /\ pre = [n |-> <<mk_root>>, cur |-> NoCursor, ret |-> 0]

\* a caller goes on after a success; after an error the document is
\* re-synchronised by opening it again; after a panic nothing runs
Running == result.st = "ok"

Open ==
  /\ result.st # "panic"
  /\ mode' = "Edit"
  /\ Commit(open(Heap, mode), [kind |-> "Open"])

Close ==
  /\ Running
  /\ mode' = "Closed"
  /\ Commit(close(Heap), [kind |-> "Close"])

Insert ==
  /\ Running
  /\ \E t \in InsertTexts, a \in InsertAttrs :
       /\ mode = "Edit" => doc_len(Heap) + Len(t) <= MaxDocLen
       /\ Commit(apply_operation(Heap, mode, [kind |-> "Insert", txt |-> t, at |-> a]),
                 [kind |-> "Insert", txt |-> t, at |-> a])
  /\ UNCHANGED mode

Delete ==
  /\ Running
  /\ \E c \in Counts :
       Commit(apply_operation(Heap, mode, [kind |-> "Delete", len |-> c]),
              [kind |-> "Delete", len |-> c])
  /\ UNCHANGED mode

Retain ==
  /\ Running
  /\ \E c \in Counts, a \in RetainAttrs :
       Commit(apply_operation(Heap, mode, [kind |-> "Retain", len |-> c, attr |-> a]),
              [kind |-> "Retain", len |-> c, attr |-> a])
  /\ UNCHANGED mode

CursorToStart ==
  /\ Running
  /\ Commit(cursor_to_start(Heap), [kind |-> "CursorToStart"])
  /\ UNCHANGED mode

CursorToEnd ==
  /\ Running
  /\ Commit(cursor_to_end(Heap), [kind |-> "CursorToEnd"])
  /\ UNCHANGED mode

Next == Open \/ Close \/ Insert \/ Delete \/ Retain \/ CursorToStart \/ CursorToEnd

Spec == Init /\ [][Next]_vars

\* ---------------------------------------------------------------------
\* The registry as a state machine: a session registers formats, label
\* by label, in the order of its calls; labels and formats are those the
\* format crates register
\* ---------------------------------------------------------------------
RegistryInit ==
  /\ registry = EmptyRegistry
  /\ nodes = <<mk_root>>
  /\ cursor = NoCursor
  /\ retain_index = 0
  /\ mode = "Read"
  /\ result = [st |-> "ok", e |-> ""]
  /\ last = NoCall
  /\ pre = [n |-> <<mk_root>>, cur |-> NoCursor, ret |-> 0]

RegisterBlockFmt ==
  /\ Len(registry.block_order) < MaxRegistered
  /\ \E reg \in {<<"F_P-BLOCK", "P_FORMAT">>, <<"heading", "HeaderBlock">>} :
       registry' = register_block_fmt(registry, reg[1], reg[2])
  /\ UNCHANGED <<nodes, cursor, retain_index, mode, result, last, pre>>

RegisterLineFmt ==
  /\ Len(registry.text_order) < MaxRegistered
  /\ \E reg \in {<<"F_TEXT", "TEXT_FORMAT">>, <<"link", "LinkFormat">>} :
       registry' = register_line_fmt(registry, reg[1], reg[2])
  /\ UNCHANGED <<nodes, cursor, retain_index, mode, result, last, pre>>

\* Registry::clear: both maps are cleared, block_order is cleared twice and
\* text_order not at all
clear(r) ==
  [r EXCEPT !.block_formats = <<>>, !.text_formats = <<>>, !.block_order = <<>>]

\* Registry::line_format on a registry r: the lists are walked in order,
\* the formatter of each label is unwrapped from the map
line_format_in(r, op) ==
  LET applies(f) == IF f = "LinkFormat" THEN "link" \in op.at ELSE text_applies(op)
      stops == {i \in 1..Len(r.text_order) :
                  \/ r.text_order[i] \notin DOMAIN r.text_formats
                  \/ applies(r.text_formats[r.text_order[i]])}
  IN IF stops # {}
       THEN LET i == CHOOSE j \in stops : \A k \in stops : j <= k IN
            IF r.text_order[i] \notin DOMAIN r.text_formats
              THEN "panic: unwrap on None"
            ELSE r.text_formats[r.text_order[i]]
     ELSE IF r.text_order = <<>> THEN "RegistryNotInitialised"
     ELSE "RegistryNoFormatForOp"

block_format_from_name(r, name) ==
  IF name \in DOMAIN r.block_formats THEN r.block_formats[name]
  ELSE IF r.text_order = <<>> THEN "RegistryNotInitialised"
  ELSE "RegistryNoSuchFormat"

RegistryClear ==
  /\ registry' = clear(registry)
  /\ UNCHANGED <<nodes, cursor, retain_index, mode, result, last, pre>>

RegistryNext == RegisterBlockFmt \/ RegisterLineFmt \/ RegistryClear

RegistrySpec == RegistryInit /\ [][RegistryNext]_vars

\* ---------------------------------------------------------------------
\* Properties
\* ---------------------------------------------------------------------
EditCalls == {"Insert", "Delete", "Retain"}

\* the last call was an insert, delete or retain on an open document and
\* it returned Ok
Completed == last.kind \in EditCalls /\ mode = "Edit" /\ result.st = "ok"

same_format_and_attributes(h, x, y) ==
  h.n[x].k = h.n[y].k /\ h.n[x].at = h.n[y].at

sibling_pairs(h) ==
  UNION {{<<h.n[p].ch[i], h.n[p].ch[i + 1]>> : i \in 1..(Len(h.n[p].ch) - 1)} :
           p \in 1..Len(h.n)}

\* the walk from the start of the document to the cursor
cursor_offset(h) == retain_of(h, h.cur)

occurrences(s, x) == Cardinality({i \in 1..Len(s) : s[i] = x})

parents_of(h, x) == {p \in 1..Len(h.n) : occurrences(h.n[p].ch, x) > 0}

RECURSIVE is_ancestor(_, _, _, _)
\* a is reached from x by following parent references, in at most fuel steps
is_ancestor(h, a, x, fuel) ==
  /\ fuel > 0
  /\ h.n[x].par # NoNode
  /\ (h.n[x].par = a \/ is_ancestor(h, a, h.n[x].par, fuel - 1))

\* C1: after a completed insert, delete or retain no two
\* adjacent siblings, blocks or leaves, have the same format name and the
\* same attributes
C1_NoAdjacentIdenticalSiblings ==
  Completed =>
    \A pr \in sibling_pairs(Heap) : ~same_format_and_attributes(Heap, pr[1], pr[2])

\* C2: after every insert, delete or retain call, whatever it returned, the
\* cached retain index is the number of characters between the start of the
\* document and the cursor
C2_RetainIndexIsOffset ==
  (last.kind \in EditCalls /\ mode = "Edit" /\ result.st # "panic"
     /\ cursor.nd # NoNode) =>
    retain_index = cursor_offset(Heap)

\* C3: every node but the root is in the child list of exactly one node,
\* once, and that node is its parent; no node is its own ancestor
C3_ParentChildConsistent ==
  \A x \in 1..Len(nodes) :
    /\ x # ROOT =>
         /\ parents_of(Heap, x) = {nodes[x].par}
         /\ occurrences(nodes[nodes[x].par].ch, x) = 1
    /\ x = ROOT => parents_of(Heap, x) = {} /\ nodes[x].par = NoNode
    /\ ~is_ancestor(Heap, x, x, Len(nodes))

\* the state in which the last call began
PreHeap == [n |-> pre.n, cur |-> pre.cur, ret |-> pre.ret,
            st |-> "ok", e |-> "", r |-> 0]

\* the last call was an insert, delete or retain on an open document
Edited == last.kind \in EditCalls /\ mode = "Edit"

\* error.rs: the errors that report the state of the document
DocumentStateErrors ==
  {"DeletingLastBlock", "CanNotFindNextBlock", "DeleteOperationOnEmptyDocument",
   "RegistryNoFormatForOp"}

\* C4: when insert, delete or retain returns a document-state error the
\* tree is the tree the call began with
C4_ErrorLeavesTreeUnchanged ==
  (Edited /\ result.st = "err" /\ result.e \in DocumentStateErrors) =>
    nodes = pre.n

\* characters between the cursor and the terminator of the last block
\* when the last call began
deletable_before(h) == doc_len(h) - 1 - cursor_offset(h)

\* C5: a delete that reaches the line terminator of the last block returns
\* an error
C5_DeleteOfLastTerminatorIsError ==
  (Edited /\ last.kind = "Delete" /\ last.len > deletable_before(PreHeap)) =>
    result.st = "err"

\* the cursor offset and the characters when the last call began
pre_offset == cursor_offset(PreHeap)

pre_flat == Flat(PreHeap)

\* the last call was a delete on an open document
Deleted == Edited /\ last.kind = "Delete"

\* the last call was a retain on an open document
Retained == Edited /\ last.kind = "Retain"

\* the last call was a delete of the terminator of a block that has
\* children and is followed by another block
DeletedLineBreak ==
  /\ Deleted /\ last.len = 1
  /\ pre_offset + 1 < Len(pre_flat)
  /\ pre_flat[pre_offset + 1].c = NL
  /\ pre_offset > 0 /\ pre_flat[pre_offset].c # NL

\* C6: deleting the terminator of a non-empty block that has a following
\* block succeeds and leaves the characters of both lines, in order, in one
\* block that carries the attributes of the following block
C6_DeleteLineBreakMergesIntoNext ==
  DeletedLineBreak =>
    /\ result.st = "ok"
    /\ Flat(Heap) = RemoveAt(pre_flat, pre_offset + 1)
    /\ child_count(Heap, ROOT) = Len(pre.n[ROOT].ch) - 1

\* C7: a successful delete(count) removes the count characters after the
\* cursor, keeps every other character, and keeps the cursor offset
C7_DeleteRemovesCountAfterCursor ==
  (Deleted /\ result.st = "ok") =>
    /\ pre_offset + last.len <= Len(pre_flat)
    /\ Flat(Heap) = SubSeq(pre_flat, 1, pre_offset)
                      \o SubSeq(pre_flat, pre_offset + last.len + 1, Len(pre_flat))
    /\ cursor_offset(Heap) = pre_offset

\* the location kind that fits the offset: inside a leaf, at an empty
\* block, or at the edge of a leaf
location_fits(h) ==
  LET c == h.cur IN
  /\ c.loc \in {"At", "Before", "After"}
  /\ c.loc = "At" =>
       \/ (is_text(h, c.nd) /\ 0 < c.ix /\ c.ix < op_len(h, c.nd))
       \/ (~is_text(h, c.nd) /\ c.ix = 0 /\ child_count(h, c.nd) = 0)
  /\ c.loc \in {"Before", "After"} => is_text(h, c.nd)

\* C8: a retain(count) without attributes that stays inside the document
\* succeeds, changes no node and moves the cursor forward by count
C8_PlainRetainAdvancesCursor ==
  (Retained /\ last.attr = NoChange /\ pre_offset + last.len <= Len(pre_flat) - 1) =>
    /\ result.st = "ok"
    /\ nodes = pre.n
    /\ cursor_offset(Heap) = pre_offset + last.len
    /\ location_fits(Heap)

\* the characters of f, those of the range (o, o + len] carrying their
\* attributes composed with attr
retained_flat(f, o, len, attr) ==
  [i \in 1..Len(f) |->
     IF o < i /\ i <= o + len
     THEN [c |-> f[i].c, at |-> compose(f[i].at, attr)]
     ELSE f[i]]

\* C9: a retain(count, attrs) with attributes over a range that ends before
\* the terminator of the last block succeeds and leaves the characters of
\* the range with their attributes composed with attrs, and every other
\* character and the text unchanged
C9_AttributedRetainComposesRange ==
  (Retained /\ last.attr # NoChange /\ last.len >= 1
     /\ pre_offset + last.len <= Len(pre_flat) - 1) =>
    /\ result.st = "ok"
    /\ Flat(Heap) = retained_flat(pre_flat, pre_offset, last.len, last.attr)

\* the last call was an attributed retain of one character, the cursor being
\* on the terminator of a block
RetainedOneTerminator ==
  /\ Retained /\ last.attr # NoChange /\ last.len = 1
  /\ pre_offset + 1 <= Len(pre_flat)
  /\ pre_flat[pre_offset + 1].c = NL

\* C10: an attributed retain of the one terminator of a block, the last
\* block included, succeeds and replaces the block in place by a block with
\* the composed attributes and the same children
C10_RetainTerminatorReplacesBlock ==
  RetainedOneTerminator =>
    /\ result.st = "ok"
    /\ Flat(Heap) = retained_flat(pre_flat, pre_offset, 1, last.attr)
    /\ child_count(Heap, ROOT) = Len(pre.n[ROOT].ch)

\* the Delta that skips o characters and retains count characters with
\* attr, applied to the open document
retain_from_start(h, o, count, attr) ==
  apply_delta(h, "Edit",
    (IF o = 0 THEN <<>> ELSE <<[kind |-> "Retain", len |-> o, attr |-> NoChange]>>)
      \o <<[kind |-> "Retain", len |-> count, attr |-> attr]>>)

\* C11: after an insert of plain text, making the inserted range bold and
\* then clearing bold over the same range succeeds and gives back the tree
\* of before: the same blocks and the same merged, unformatted leaves
C11_BoldRoundTripRestores ==
  (/\ Completed /\ last.kind = "Insert" /\ last.at = NoAttr
   /\ \A i \in 1..Len(last.txt) : last.txt[i] # NL) =>
    LET n == Len(last.txt)
        bold_round_trip ==
          retain_from_start(retain_from_start(Heap, pre_offset, n, Bold),
                            pre_offset, n, Unbold)
    IN /\ bold_round_trip.st = "ok"
       /\ Normalize(bold_round_trip).n = nodes

\* {align: center}: a key of the block formats, of no leaf format
Centered == [set |-> {"align"}, clr |-> {}]

\* C12: an attributed retain of one character of a leaf rebuilds the leaf
\* that holds the character with the composed attributes and with the leaf
\* format that the registry resolves for an operation with these attributes
C12_LeafFormatResolvedForComposed ==
  LET o == cursor_offset(Heap)
      f == Flat(Heap)
  IN
  (/\ Running /\ mode = "Edit" /\ location_fits(Heap)
   /\ o + 1 <= Len(f) /\ f[o + 1].c # NL) =>
    \A a \in {Bold, Unbold, Centered} :
      LET g == Normalize(apply_operation(Heap, mode,
                 [kind |-> "Retain", len |-> 1, attr |-> a]))
      IN g.st = "ok" =>
           \A x \in 1..Len(g.n) :
             (is_text(g, x) /\ retain_walk(g, x) <= o
                /\ o < retain_walk(g, x) + op_len(g, x)) =>
               /\ g.n[x].at = compose(f[o + 1].at, a)
               /\ line_format([txt |-> g.n[x].txt, at |-> g.n[x].at])

\* C13: an insert of plain text, line terminators included, in a document
\* of plain content: to_delta gives the characters of before with the
\* inserted ones at the cursor, and the document has one paragraph for
\* each line terminator
C13_PlainInsertSerializesBack ==
  (/\ Completed /\ last.kind = "Insert" /\ last.at = NoAttr
   /\ \A i \in 1..Len(pre_flat) : pre_flat[i].at = NoAttr) =>
    /\ Flat(Heap) = SubSeq(pre_flat, 1, pre_offset)
                      \o [i \in 1..Len(last.txt) |-> [c |-> last.txt[i], at |-> NoAttr]]
                      \o SubSeq(pre_flat, pre_offset + 1, Len(pre_flat))
    /\ child_count(Heap, ROOT)
         = Cardinality({i \in 1..Len(Flat(Heap)) : Flat(Heap)[i].c = NL})
    /\ \A b \in 1..Len(nodes) : nodes[b].k = "block" => nodes[b].at = NoAttr

\* the document of h is k paragraphs without attributes and without
\* children, each carrying the placeholder
empty_paragraphs(h, k) ==
  /\ h.st = "ok"
  /\ child_count(h, ROOT) = k
  /\ \A i \in 1..k :
       LET b == h.n[ROOT].ch[i] IN
       /\ ~is_text(h, b) /\ h.n[b].at = NoAttr
       /\ child_count(h, b) = 0 /\ has_break(h, b)

C15_LeafInsertAtCursor ==
  (/\ Edited /\ last.kind = "Insert"
   /\ line_format([txt |-> last.txt, at |-> last.at])
   /\ \A i \in 1..Len(last.txt) : last.txt[i] # NL) =>
    /\ result.st = "ok"
    /\ Flat(Heap) = SubSeq(pre_flat, 1, pre_offset)
                      \o [i \in 1..Len(last.txt) |-> [c |-> last.txt[i], at |-> last.at]]
                      \o SubSeq(pre_flat, pre_offset + 1, Len(pre_flat))
    /\ cursor_offset(Heap) = pre_offset + Len(last.txt)

\* C16: an insert of a line terminator while the cursor is at a leaf
\* succeeds and splits the line at the cursor: the characters before the
\* cursor end with a terminator that carries the attributes of the insert,
\* the characters behind it keep the terminator of the line, in a block that
\* follows at once, and the cursor is at the start of that block
C16_LineBreakSplitsLine ==
  (/\ Edited /\ last.kind = "Insert" /\ last.txt = <<NL>>
   /\ pre.cur.loc # "None" /\ is_text(PreHeap, pre.cur.nd)) =>
    /\ result.st = "ok"
    /\ Flat(Heap) = SubSeq(pre_flat, 1, pre_offset)
                      \o <<[c |-> NL, at |-> last.at]>>
                      \o SubSeq(pre_flat, pre_offset + 1, Len(pre_flat))
    /\ child_count(Heap, ROOT) = Len(pre.n[ROOT].ch) + 1
    /\ cursor_offset(Heap) = pre_offset + 1
    /\ location_fits(Heap)
    /\ LET b == IF is_text(Heap, cursor.nd) THEN get_parent(Heap, cursor.nd)
                ELSE cursor.nd
       IN retain_walk(Heap, first_iter_intern(Heap, b)) = pre_offset + 1

\* C17: after every call on the open document that returned Ok, a cursor
\* At(node, index) is inside a leaf, 0 < index < length, or at a block
\* without children with index 0
C17_AtLocationIsValid ==
  (mode = "Edit" /\ result.st = "ok" /\ cursor.loc = "At") =>
    \/ /\ is_text(Heap, cursor.nd)
       /\ 0 < cursor.ix /\ cursor.ix < op_len(Heap, cursor.nd)
    \/ /\ ~is_text(Heap, cursor.nd) /\ ~is_doc_root(Heap, cursor.nd)
       /\ child_count(Heap, cursor.nd) = 0 /\ cursor.ix = 0

C19_PlaceholderIffEmpty ==
  Completed =>
    \A b \in 1..Len(nodes) :
      nodes[b].k = "block" => (has_break(Heap, b) <=> child_count(Heap, b) = 0)

\* the document of the state, the characters of leaf x replaced by
\* different letters
lettered(x) ==
  [Heap EXCEPT !.n[x].txt =
     SubSeq(<<"a", "b", "c", "d", "e", "f", "g", "h">>, 1, Len(nodes[x].txt))]

\* C20: for every leaf of the document and every index k inside it,
\* split_text_node at k leaves the first k characters in the leaf and the
\* others in a new right hand sibling with the same attributes, and
\* merge_text_node of the two gives back the text, the attributes and the
\* child list of the parent
C20_SplitMergeRestoresLeaf ==
  \A x \in 1..Len(nodes) :
    is_text(Heap, x) =>
      \A k \in 1..(op_len(Heap, x) - 1) :
        LET h0 == lettered(x)
            p == get_parent(h0, x)
            h1 == split_text_node(h0, x, k)
            h2 == merge_text_node(h1, x, h1.r)
        IN /\ h1.st = "ok"
           /\ h1.n[x].txt = SubSeq(h0.n[x].txt, 1, k)
           /\ h1.n[h1.r].txt = SubSeq(h0.n[x].txt, k + 1, Len(h0.n[x].txt))
           /\ h1.n[h1.r].at = h0.n[x].at /\ h1.n[x].at = h0.n[x].at
           /\ h1.n[p].ch = InsertAt(h0.n[p].ch, get_child_index(h0, p, x) + 1, h1.r)
           /\ h2.st = "ok"
           /\ h2.n[x].txt = h0.n[x].txt /\ h2.n[x].at = h0.n[x].at
           /\ h2.n[p].ch = h0.n[p].ch

\* C21: try_3_way_merge_text, with the cursor on a leaf, completes; it
\* merges the middle node with its right sibling exactly when that one has
\* equal attributes, and then with its left sibling exactly when that one
\* has equal attributes; with neither, tree and cursor are unchanged; a
\* second application changes nothing further
C21_ThreeWayMergeIdempotent ==
  (cursor.loc # "None" /\ cursor.nd # NoNode /\ is_text(Heap, cursor.nd)) =>
    LET h == Heap
        dn == IF h.cur.loc = "Before" /\ prev_sibling(h, h.cur.nd) # NoNode
              THEN prev_sibling(h, h.cur.nd)
              ELSE h.cur.nd
        par == get_parent(h, dn)
        n == next_sibling(h, dn)
        p == prev_sibling(h, dn)
        mright == n # NoNode /\ TextMergeable(h, dn, n)
        mleft == p # NoNode /\ TextMergeable(h, dn, p)
        keep == IF mleft THEN p ELSE dn
        g == try_3_way_merge_text(h)
    IN /\ g.st = "ok"
       /\ g.n[par].ch = SelectSeq(h.n[par].ch,
             LAMBDA c : ~(mright /\ c = n) /\ ~(mleft /\ c = dn))
       /\ g.n[keep].txt = (IF mleft THEN h.n[p].txt ELSE <<>>) \o h.n[dn].txt
                            \o (IF mright THEN h.n[n].txt ELSE <<>>)
       /\ g.n[keep].at = h.n[dn].at
       /\ (~mright /\ ~mleft) => (g.n = h.n /\ g.cur = h.cur)
       /\ try_3_way_merge_text(g) = g

\* C22: merge_text_node of any two leaves of one parent completes: the
\* text of the right one is added to the left one, the right one is
\* unlinked, the left one keeps its attributes, also when the attributes of
\* the two differ
C22_MergeLeafAlwaysCompletes ==
  \A left, right \in 1..Len(nodes) :
    (/\ left # right /\ is_text(Heap, left) /\ is_text(Heap, right)
     /\ get_parent(Heap, left) = get_parent(Heap, right)) =>
      LET g == merge_text_node(Heap, left, right)
          par == get_parent(Heap, right)
      IN /\ g.st = "ok"
         /\ g.n[left].txt = nodes[left].txt \o nodes[right].txt
         /\ g.n[left].at = nodes[left].at
         /\ g.n[par].ch = SelectSeq(nodes[par].ch, LAMBDA c : c # right)

C24_BlockTransformRelinksChildren ==
  (mode = "Edit" /\ cursor.loc # "None") =>
    \A b \in 1..Len(nodes) :
      (nodes[b].k = "block" /\ get_parent(Heap, b) # NoNode) =>
        \A g \in {block_transform(Heap, b, {"align"}), un_block_transform(Heap, b)} :
          LET par == get_parent(Heap, b) IN
          /\ g.st = "ok"
          /\ g.n[g.r].k = "block" /\ g.r # b
          /\ g.n[par].ch = [i \in 1..Len(nodes[par].ch) |->
                              IF nodes[par].ch[i] = b THEN g.r ELSE nodes[par].ch[i]]
          /\ g.n[g.r].ch = nodes[b].ch
          /\ \A c \in 1..Len(nodes) : get_parent(Heap, c) = b => get_parent(g, c) = g.r
          /\ cursor.nd # b => g.cur = cursor

\* C25: in every document with a first node, next_node repeated from
\* first_node gives the nodes below the root in depth-first post-order
\* (the nodes below a block, then the block), every one once, and
\* prev_node repeated from the last one gives the same nodes in reverse:
\* prev_node(next_node(x)) = x wherever next_node(x) exists
C25_DocumentOrderIsPostOrder ==
  child_count(Heap, ROOT) > 0 =>
    LET h == Heap
        RECURSIVE post(_)
        post(kids) ==
          IF kids = <<>> THEN <<>>
          ELSE post(h.n[kids[1]].ch) \o <<kids[1]>> \o post(SubSeq(kids, 2, Len(kids)))
        RECURSIVE forward(_, _)
        forward(x, fuel) ==
          IF x = NoNode \/ fuel = 0 THEN <<>>
          ELSE <<x>> \o forward(next_node(h, x), fuel - 1)
        RECURSIVE backward(_, _)
        backward(x, fuel) ==
          IF x = NoNode \/ fuel = 0 THEN <<>>
          ELSE backward(prev_node(h, x), fuel - 1) \o <<x>>
        order == post(h.n[ROOT].ch)
    IN /\ forward(first_node(h), Len(nodes) + 1) = order
       /\ backward(order[Len(order)], Len(nodes) + 1) = order
       /\ \A i \in 1..Len(order) : \A j \in 1..Len(order) :
             order[i] = order[j] => i = j
       /\ \A x \in 2..Len(nodes) :
             /\ next_node(h, x) # NoNode => prev_node(h, next_node(h, x)) = x
             /\ prev_node(h, x) # NoNode => next_node(h, prev_node(h, x)) = x
       /\ prev_node(h, first_node(h)) = NoNode
       /\ next_node(h, order[Len(order)]) = NoNode

\* C26: in every registry in which a block format and a line format have
\* been registered, no label is twice in a list, and each list has
\* exactly one catch-all format (P_FORMAT, TEXT_FORMAT), as its last entry
C26_RegistryWellFormed ==
  (registry.block_order # <<>> /\ registry.text_order # <<>>) =>
    \A side \in {[order |-> registry.block_order, formats |-> registry.block_formats,
                  catch_all |-> "P_FORMAT"],
                 [order |-> registry.text_order, formats |-> registry.text_formats,
                  catch_all |-> "TEXT_FORMAT"]} :
      /\ \A i, j \in 1..Len(side.order) : side.order[i] = side.order[j] => i = j
      /\ \A i \in 1..Len(side.order) :
            side.formats[side.order[i]] = side.catch_all <=> i = Len(side.order)

\* ---------------------------------------------------------------------
\* formats::list and formats::link : delete_node
\* ---------------------------------------------------------------------
\* a tree as the list and link formats build it: the children i..j of p
\* are put under a new grouping node of the given kind ("list" for <UL>
\* over <LI> blocks, "link" for <A> over leaves), which takes their place
\* in p.  The grouping node is left in h.r
grouped(h, p, i, j, kind) ==
  LET w == Len(h.n) + 1
      kids == SubSeq(h.n[p].ch, i, j)
      rec == [k |-> kind, txt |-> <<>>, at |-> NoAttr, par |-> p,
              ch |-> kids, br |-> FALSE]
  IN [h EXCEPT
        !.n = [x \in 1..w |->
                 IF x = w THEN rec
                 ELSE IF x = p
                   THEN [h.n[p] EXCEPT !.ch = SubSeq(@, 1, i - 1) \o <<w>>
                                              \o SubSeq(@, j + 1, Len(@))]
                 ELSE IF IndexOf(kids, x) # 0 THEN [h.n[x] EXCEPT !.par = w]
                 ELSE h.n[x]],
        !.r = w]

\* variant: the emptied <UL> is left in the tree
list_delete_node_no_cascade(h, block_node) ==
  IF h.st # "ok" THEN h
  ELSE IF get_parent(h, block_node) = NoNode THEN Panic(h, "delete_node: unwrap on None")
  ELSE IF ~(h.n[block_node].k = "block" /\ h.n[get_parent(h, block_node)].k = "list")
    THEN Panic(h, "ListBlock::delete_node: not a <LI>")
  ELSE delete_node(h, block_node)

\* ListBlock::delete_node; a block is a <LI> when its parent is a <UL>
list_delete_node(h, block_node) ==
  IF h.st # "ok" THEN h
  ELSE IF get_parent(h, block_node) = NoNode THEN Panic(h, "delete_node: unwrap on None")
  ELSE IF ~(h.n[block_node].k = "block" /\ h.n[get_parent(h, block_node)].k = "list")
    THEN Panic(h, "ListBlock::delete_node: not a <LI>")
  ELSE LET ul_node == get_parent(h, block_node)
           h1 == delete_node(h, block_node)
       IN IF h1.st = "ok" /\ child_count(h1, ul_node) = 0
          THEN delete_node(h1, ul_node) ELSE h1

\* LinkFormat::delete_node
link_delete_node(h, doc_node) ==
  IF h.st # "ok" THEN h
  ELSE IF get_parent(h, doc_node) = NoNode THEN Panic(h, "delete_node: unwrap on None")
  ELSE IF h.n[doc_node].k # "link"
    THEN LET parent == get_parent(h, doc_node)
             h1 == delete_node(h, doc_node)
         IN IF h.n[parent].k # "link" THEN Panic(h, "LinkFormat::delete_node: not in <A>")
            ELSE IF h1.st = "ok" /\ child_count(h1, parent) = 0
              THEN delete_node(h1, parent) ELSE h1
  ELSE unlink(h, get_parent(h, doc_node), doc_node)

C28_AdvanceMovesOneForward ==
  (/\ mode = "Edit" /\ cursor.nd # NoNode /\ location_fits(Heap)
   /\ retain_index = cursor_offset(Heap)
   /\ retain_index < doc_len(Heap) - 1) =>
    LET g == advance(Heap) IN
    /\ g.st = "ok" /\ g.n = nodes
    /\ g.ret = retain_index + 1
    /\ cursor_offset(g) = g.ret

\* C29: in an open document whose cursor has a location that fits its
\* offset, a cached offset that is right, and is not at offset 0,
\* backspace completes, leaves the tree, takes one from the cached offset,
\* and the offset of the new location is the cached one
C29_BackspaceMovesOneBack ==
  (/\ mode = "Edit" /\ cursor.nd # NoNode /\ location_fits(Heap)
   /\ retain_index = cursor_offset(Heap)
   /\ retain_index > 0) =>
    LET g == backspace(Heap) IN
    /\ g.st = "ok" /\ g.n = nodes
    /\ g.ret = retain_index - 1
    /\ cursor_offset(g) = g.ret

\* C30: in an open document whose cursor has a location that fits its
\* offset and a cached offset that is right: at the last position advance
\* returns AdvanceBeyondEnd, at offset 0 backspace returns
\* BackspaceBeyondStart, and both leave location and cached offset
C30_BeyondEndsIsTypedError ==
  (/\ mode = "Edit" /\ cursor.nd # NoNode /\ location_fits(Heap)
   /\ retain_index = cursor_offset(Heap)) =>
    /\ retain_index = doc_len(Heap) - 1 =>
         LET g == advance(Heap) IN
         /\ g.st = "err" /\ g.e = "AdvanceBeyondEnd"
         /\ g.cur = cursor /\ g.ret = retain_index
    /\ retain_index = 0 =>
         LET g == backspace(Heap) IN
         /\ g.st = "err" /\ g.e = "BackspaceBeyondStart"
         /\ g.cur = cursor /\ g.ret = retain_index

\* C31: whenever the mode is Edit after calls that succeeded, set_mode
\* among them, the root has a child and its last child, the last node in
\* document order, is a block
C31_EditModeEndsWithBlock ==
  \A md \in {mode} \cup {edit_mode(mode, m) : m \in {"Edit", "Read", "Closed"}} :
    (md = "Edit" /\ result.st = "ok") =>
      /\ child_count(Heap, ROOT) > 0
      /\ nodes[last_block_node(Heap)].k = "block"
      /\ next_node(Heap, last_block_node(Heap)) = NoNode

\* C32: after an insert, delete or retain on an open document whose
\* cursor was on a node of the tree, returned with success or with an
\* error, the cursor is on a node of the tree
C32_CursorNodeStaysAttached ==
  (/\ last.kind \in EditCalls /\ mode = "Edit" /\ result.st \in {"ok", "err"}
   /\ pre.cur.loc # "None" /\ pre.cur.nd # NoNode) =>
    /\ cursor.loc # "None"
    /\ cursor.nd # NoNode
    /\ cursor.nd \in {attached(Heap)[i] : i \in 1..Len(attached(Heap))}

\* C33: a completed insert of L characters makes the document, as
\* to_delta reports it, L characters longer, a completed delete(count)
\* makes it count characters shorter, a completed retain leaves its length
C33_LengthAccounting ==
  Completed =>
    doc_len(Heap) =
      Len(pre_flat) + (IF last.kind = "Insert" THEN Len(last.txt)
                       ELSE IF last.kind = "Delete" THEN 0 - last.len
                       ELSE 0)

\* C34: a retain, with or without attributes, whose count carries the cursor
\* beyond the end of the document returns an error to the caller; it neither
\* panics nor returns Ok
C34_RetainBeyondEndIsTypedError ==
  (Retained /\ pre_offset + last.len > Len(pre_flat)) => result.st = "err"

\* C35: apply_operation and apply_delta on a document whose mode is not Edit
\* (Read after construction or set_mode, Closed after close) return
\* DocumentNotOpenForEdit and change neither the tree nor the cursor
C35_NotOpenForEditChangesNothing ==
  LET sample == {[kind |-> "Insert", txt |-> <<"a", NL>>, at |-> NoAttr],
                 [kind |-> "Delete", len |-> 1],
                 [kind |-> "Retain", len |-> 1, attr |-> Bold]}
      refused(g) == /\ g.st = "err" /\ g.e = "DocumentNotOpenForEdit"
                    /\ g.n = nodes /\ g.cur = cursor /\ g.ret = retain_index
  IN
  /\ (last.kind \in EditCalls /\ mode # "Edit") =>
       /\ result = [st |-> "err", e |-> "DocumentNotOpenForEdit"]
       /\ nodes = pre.n /\ cursor = pre.cur /\ retain_index = pre.ret
  /\ result.st = "ok" =>
       \A md \in {mode} \cup {edit_mode(mode, m) : m \in {"Read", "Closed"}} :
         md # "Edit" =>
           /\ \A op \in sample : refused(apply_operation(Heap, md, op))
           /\ \A ops \in {<<>>} \cup {<<op>> : op \in sample} :
                refused(apply_delta(Heap, md, ops))

\* C36: open() in any mode, set by the calls before it or by set_mode, and
\* after any history leaves exactly one empty plain paragraph with its
\* placeholder, the cursor At(that paragraph, 0) and the cached offset 0
C36_OpenLeavesOneEmptyParagraph ==
  result.st # "panic" =>
    \A md \in {mode} \cup {edit_mode(mode, m) : m \in {"Edit", "Read", "Closed"}} :
      LET g == open(Heap, md)
          blocks == g.n[ROOT].ch
      IN /\ g.st = "ok"
         /\ Len(blocks) = 1
         /\ g.n[blocks[1]].k = "block"
         /\ g.n[blocks[1]].at = NoAttr
         /\ g.n[blocks[1]].ch = <<>>
         /\ g.n[blocks[1]].br
         /\ g.cur = [loc |-> "At", nd |-> blocks[1], ix |-> 0]
         /\ g.ret = 0

\* C37: split_text_lines turns every Insert operation, the empty one
\* included, into operations that are each the one line terminator or a
\* non-empty text without line terminators, all with the attributes of the
\* original, and whose contents concatenated are the original content
C37_SplitTextLinesPieces ==
  \A t \in (IF last.kind = "Insert" THEN {last.txt} ELSE {})
             \cup UNION {[1..n -> {"a", NL}] : n \in 0..3},
     at \in InsertAttrs :
    LET ops == split_text_lines([txt |-> t, at |-> at])
        RECURSIVE contents(_)
        contents(i) == IF i > Len(ops) THEN <<>> ELSE ops[i].txt \o contents(i + 1)
    IN /\ \A i \in 1..Len(ops) :
            /\ \/ ops[i].txt = <<NL>>
               \/ (ops[i].txt # <<>> /\ \A k \in 1..Len(ops[i].txt) : ops[i].txt[k] # NL)
            /\ ops[i].at = at
       /\ contents(1) = t

\* C38: after a completed insert, delete or retain no two adjacent leaves
\* under the same parent carry equal attributes
C38_AdjacentLeavesDiffer ==
  Completed =>
    \A pr \in sibling_pairs(Heap) :
      (is_text(Heap, pr[1]) /\ is_text(Heap, pr[2])) => nodes[pr[1]].at # nodes[pr[2]].at

\* C39: no insert, delete or retain takes a merge branch of
\* try_3_way_merge_text with location Before, and in the state such a call
\* leaves, a cursor Before a leaf without previous sibling stands on a leaf
\* whose attributes differ from those of its next sibling
C39_BeforeMergeBranchesUnreachable ==
  Edited =>
    /\ result.e # "This case can never happen"
    /\ (/\ result.st = "ok" /\ cursor.loc = "Before"
        /\ prev_sibling(Heap, cursor.nd) = NoNode
        /\ next_sibling(Heap, cursor.nd) # NoNode) =>
         /\ nodes[cursor.nd].at # nodes[next_sibling(Heap, cursor.nd)].at
         /\ try_3_way_merge_text(Heap).st = "ok"

\* C40: clear() leaves both maps and both ordered lists of the registry
\* empty, and every lookup after it returns RegistryNotInitialised
C40_ClearEmptiesRegistry ==
  LET c == clear(registry) IN
  /\ DOMAIN c.block_formats = {} /\ DOMAIN c.text_formats = {}
  /\ c.block_order = <<>> /\ c.text_order = <<>>
  /\ \A op \in {[txt |-> <<"a">>, at |-> NoAttr], [txt |-> <<"a">>, at |-> {"link"}],
                 [txt |-> <<NL>>, at |-> NoAttr]} :
       line_format_in(c, op) = "RegistryNotInitialised"
  /\ \A name \in {"F_P-BLOCK", "heading"} :
       block_format_from_name(c, name) = "RegistryNotInitialised"

\* ---------------------------------------------------------------------
\* Reachable cases
\* ---------------------------------------------------------------------
\* C3: an edit completed on a tree of several blocks, one with several leaves
C3_Witness ==
  /\ Completed
  /\ child_count(Heap, ROOT) >= 2
  /\ \E b \in 1..Len(nodes) : ~is_text(Heap, b) /\ b # ROOT /\ child_count(Heap, b) >= 2

\* C6: the break between a plain line "a" and an empty centered line was
\* deleted and one centered line "a" is left, before the last line
C6_Witness ==
  /\ DeletedLineBreak /\ result.st = "ok"
  /\ pre_flat = <<[c |-> "a", at |-> {}], [c |-> NL, at |-> {}],
                  [c |-> NL, at |-> {"align"}], [c |-> NL, at |-> {}]>>
  /\ Flat(Heap) = <<[c |-> "a", at |-> {}], [c |-> NL, at |-> {"align"}],
                    [c |-> NL, at |-> {}]>>
  /\ child_count(Heap, ROOT) = 2

\* C7: a delete that ended inside a leaf, from a cursor behind the start of
\* the document, succeeded
C7_Witness ==
  /\ Deleted /\ result.st = "ok" /\ last.len >= 1
  /\ pre_offset >= 1
  /\ pre.cur.loc = "Before" /\ op_len(PreHeap, pre.cur.nd) > last.len
  /\ Len(Flat(Heap)) = Len(pre_flat) - last.len

\* C8: a plain retain crossed a whole leaf and stopped inside the next one
C8_Witness ==
  /\ Retained /\ last.attr = NoChange /\ result.st = "ok"
  /\ last.len = 2 /\ pre_offset = 0
  /\ cursor.loc = "At" /\ is_text(Heap, cursor.nd) /\ cursor.ix = 1
  /\ Len(nodes[get_parent(Heap, cursor.nd)].ch) = 2

\* C11: two characters were inserted behind a plain character and merged
\* with it; bold over the two splits the leaf, clearing bold again leaves
\* the one plain leaf of three characters
C11_Witness ==
  LET bold_applied == retain_from_start(Heap, 1, 2, Bold)
      bold_round_trip == retain_from_start(bold_applied, 1, 2, Unbold)
  IN
  /\ Completed /\ last.kind = "Insert" /\ last.txt = <<"a", "a">>
  /\ last.at = NoAttr /\ pre_offset = 1
  /\ \E x \in 1..Len(nodes) : is_text(Heap, x) /\ op_len(Heap, x) = 3
  /\ bold_applied.st = "ok"
  /\ Flat(bold_applied) = retained_flat(Flat(Heap), 1, 2, Bold)
  /\ Flat(bold_applied) # Flat(Heap)
  /\ bold_round_trip.st = "ok"
  /\ Normalize(bold_round_trip).n = nodes

\* C13: "a", line terminator, "a" was inserted in the empty document: two
\* paragraphs with one leaf "a" each
C13_Witness ==
  /\ Completed /\ last.kind = "Insert" /\ last.at = NoAttr
  /\ last.txt = <<"a", NL, "a">>
  /\ pre_flat = <<[c |-> NL, at |-> NoAttr]>>
  /\ child_count(Heap, ROOT) = 2
  /\ \A i \in 1..2 :
       LET b == nodes[ROOT].ch[i] IN
       /\ child_count(Heap, b) = 1
       /\ nodes[nodes[b].ch[1]].txt = <<"a">>

C19_Witness ==
  /\ Completed /\ last.kind = "Delete"
  /\ \E b \in 1..Len(nodes) :
       /\ nodes[b].k = "block" /\ child_count(Heap, b) = 0 /\ has_break(Heap, b)
       /\ b = cursor.nd
       /\ Len(pre.n) > b /\ pre.n[b].k = "block" /\ Len(pre.n[b].ch) = 1
       /\ ~pre.n[b].br
  /\ \E b \in 1..Len(nodes) :
       nodes[b].k = "block" /\ child_count(Heap, b) > 0 /\ ~has_break(Heap, b)

\* C20: the document has a leaf of two characters with a sibling behind
\* it; split at 1 it gives "a" and "b", the new node between the leaf and its
\* sibling, and the merge gives "ab" again
C20_Witness ==
  \E x \in 1..Len(nodes) :
    /\ is_text(Heap, x) /\ op_len(Heap, x) = 2
    /\ next_sibling(Heap, x) # NoNode
    /\ LET h1 == split_text_node(lettered(x), x, 1)
           h2 == merge_text_node(h1, x, h1.r)
       IN /\ h1.st = "ok" /\ h1.n[x].txt = <<"a">> /\ h1.n[h1.r].txt = <<"b">>
          /\ next_sibling(h1, x) = h1.r
          /\ next_sibling(h1, h1.r) = next_sibling(Heap, x)
          /\ h2.st = "ok" /\ h2.n[x].txt = <<"a", "b">>
          /\ next_sibling(h2, x) = next_sibling(Heap, x)

C24_Witness ==
  /\ mode = "Edit" /\ cursor.loc # "None" /\ child_count(Heap, ROOT) = 2
  /\ LET b == nodes[ROOT].ch[2]
         g == block_transform(Heap, b, {"align"})
     IN /\ child_count(Heap, b) = 2 /\ cursor.nd # b
        /\ nodes[ROOT].ch[1] \in {cursor.nd, get_parent(Heap, cursor.nd)}
        /\ g.st = "ok" /\ g.r # b
        /\ g.n[ROOT].ch = <<nodes[ROOT].ch[1], g.r>>
        /\ g.n[g.r].ch = nodes[b].ch /\ g.n[g.r].at = {"align"}
        /\ g.cur = cursor

\* C25: a paragraph of two leaves before an empty paragraph: the leaves,
\* their paragraph, the empty paragraph
C25_Witness ==
  /\ child_count(Heap, ROOT) = 2
  /\ LET b == nodes[ROOT].ch[1]
         e == nodes[ROOT].ch[2]
     IN /\ child_count(Heap, b) = 2 /\ child_count(Heap, e) = 0
        /\ first_node(Heap) = nodes[b].ch[1]
        /\ next_node(Heap, nodes[b].ch[1]) = nodes[b].ch[2]
        /\ next_node(Heap, nodes[b].ch[2]) = b
        /\ next_node(Heap, b) = e
        /\ next_node(Heap, e) = NoNode
        /\ prev_node(Heap, e) = b
        /\ prev_node(Heap, b) = nodes[b].ch[2]

C33_Witness ==
  /\ Completed
  /\ last.kind = "Delete"
  /\ last.len = 2
  /\ Len(pre_flat) = 3
  /\ doc_len(Heap) = 1

\* C35: a document with text was put into Read mode and refused an insert
C35_Witness ==
  /\ mode = "Edit" /\ result.st = "ok" /\ doc_len(Heap) >= 3
  /\ apply_operation(Heap, edit_mode(mode, "Read"),
                     [kind |-> "Insert", txt |-> <<"a">>, at |-> NoAttr]).e
       = "DocumentNotOpenForEdit"

====
